---- MODULE Spec2Model ----
(***************************************************************************)
(* State-machine model of the OpenNSA connection layer                     *)
(* (opennsa/connection.py): the ConnectionState transition table, the      *)
(* remote SubConnection and LocalConnection drivers and the aggregating    *)
(* Connection with its DeferredList barrier.                               *)
(*                                                                         *)
(* Granularity: one action per handler of the event loop.  A parent call   *)
(* (Connection.reservation, ...) is one action: it switches the parent,    *)
(* walks connections() in order, switches every child and issues the       *)
(* downstream call.  The firing of a backend/proxy deferred is one action: *)
(* it runs the child's callback and, when it is the last deferred of the   *)
(* parent's DeferredList, the parent's callback in the same step.  A       *)
(* deferred that has already fired when the callbacks are attached runs    *)
(* the same callbacks inside the call; here it is delivered as the next    *)
(* step.  Every child is bound to its backend or proxy.                    *)
(***************************************************************************)
EXTENDS Integers, Sequences, FiniteSets, TLC

(* ------------------------------ bounds --------------------------------- *)
\* number of remote sub-connections of the aggregating connection: 0..MaxRemotes
MaxRemotes == 2
\* identifiers handed out by the backend: 1..MaxId
MaxId == 2
\* number of switchState calls followed on a bare ConnectionState object
MaxSwitch == 3
\* number of children when sub-connections are also invoked directly
MaxDirect == 1
\* integers written in label tokens: 0..MaxVal
MaxVal == 3
\* messages a peer delivers to one RequesterService
MaxMessages == 2
\* links of a Path
MaxLinks == 2
\* children of the connection in the runs with a fair backend and proxies
MaxFair == 2

(* --------------------------- connection states ------------------------- *)
INITIAL == "Initial"
RESERVING == "Reserving"
RESERVED == "Reserved"
AUTO_PROVISION == "Auto-Provision"
PROVISIONING == "Provisioning"
PROVISIONED == "Provisioned"
RELEASING == "Releasing"
TERMINATING == "Terminateing"
TERMINATED == "Terminated"

States ==
    { INITIAL, RESERVING, RESERVED, AUTO_PROVISION, PROVISIONING,
      PROVISIONED, RELEASING, TERMINATING, TERMINATED }

\* a variant of the table in which a terminated object may be reserved again
TRANSITIONS_Reopen ==
    [ s \in States |->
        CASE s = INITIAL        -> { RESERVING }
          [] s = RESERVING      -> { RESERVED, TERMINATED }
          [] s = RESERVED       -> { AUTO_PROVISION, PROVISIONING, TERMINATING }
          [] s = AUTO_PROVISION -> { PROVISIONING, TERMINATED }
          [] s = PROVISIONING   -> { PROVISIONED, TERMINATED }
          [] s = PROVISIONED    -> { RELEASING, TERMINATING }
          [] s = RELEASING      -> { RESERVED, TERMINATED }
          [] s = TERMINATING    -> { TERMINATED }
          [] s = TERMINATED     -> { RESERVING } ]

\* a variant of the table that lets a provisioning object be cancelled
TRANSITIONS_CancelInFlight ==
    [ s \in States |->
        CASE s = INITIAL        -> { RESERVING }
          [] s = RESERVING      -> { RESERVED, TERMINATED }
          [] s = RESERVED       -> { AUTO_PROVISION, PROVISIONING, TERMINATING }
          [] s = AUTO_PROVISION -> { PROVISIONING, TERMINATED }
          [] s = PROVISIONING   -> { PROVISIONED, TERMINATED, TERMINATING }
          [] s = PROVISIONED    -> { RELEASING, TERMINATING }
          [] s = RELEASING      -> { RESERVED, TERMINATED }
          [] s = TERMINATING    -> { TERMINATED }
          [] s = TERMINATED     -> { } ]

TRANSITIONS_NoReleaseDone ==
    [ s \in States |->
        CASE s = INITIAL        -> { RESERVING }
          [] s = RESERVING      -> { RESERVED, TERMINATED }
          [] s = RESERVED       -> { AUTO_PROVISION, PROVISIONING, TERMINATING }
          [] s = AUTO_PROVISION -> { PROVISIONING, TERMINATED }
          [] s = PROVISIONING   -> { PROVISIONED, TERMINATED }
          [] s = PROVISIONED    -> { RELEASING, TERMINATING }
          [] s = RELEASING      -> { TERMINATED }
          [] s = TERMINATING    -> { TERMINATED }
          [] s = TERMINATED     -> { } ]

\* allowed state transitions
TRANSITIONS ==
    [ s \in States |->
        CASE s = INITIAL        -> { RESERVING }
          [] s = RESERVING      -> { RESERVED, TERMINATED }
          [] s = RESERVED       -> { AUTO_PROVISION, PROVISIONING, TERMINATING }
          [] s = AUTO_PROVISION -> { PROVISIONING, TERMINATED }
          [] s = PROVISIONING   -> { PROVISIONED, TERMINATED }
          [] s = PROVISIONED    -> { RELEASING, TERMINATING }
          [] s = RELEASING      -> { RESERVED, TERMINATED }
          [] s = TERMINATING    -> { TERMINATED }
          [] s = TERMINATED     -> { } ]

\* a switchState that assigns before it checks
switchState_AssignFirst(cur, new_state) ==
    [ state |-> new_state, raised |-> new_state \notin TRANSITIONS[cur] ]

\* ConnectionState.switchState: the state afterwards and whether
\* ConnectionStateTransitionError was raised
switchState(cur, new_state) ==
    IF new_state \in TRANSITIONS[cur]
    THEN [ state |-> new_state, raised |-> FALSE ]
    ELSE [ state |-> cur, raised |-> TRUE ]

(* ------------------------------ operations ----------------------------- *)
Ops == { "reservation", "cancelReservation", "provision", "releaseProvision" }
NoOp == "none"

\* a variant whose cancelReservation switches to the state of a release
InFlightState_CancelReleases(op) ==
    CASE op = "reservation"       -> RESERVING
      [] op = "cancelReservation" -> RELEASING
      [] op = "provision"         -> PROVISIONING
      [] op = "releaseProvision"  -> RELEASING

\* the state each method switches to before it issues the downstream call
InFlightState_ProvisionIsAutomatic(op) ==
    CASE op = "reservation"       -> RESERVING
      [] op = "cancelReservation" -> TERMINATING
      [] op = "provision"         -> AUTO_PROVISION
      [] op = "releaseProvision"  -> RELEASING

InFlightState(op) ==
    CASE op = "reservation"       -> RESERVING
      [] op = "cancelReservation" -> TERMINATING
      [] op = "provision"         -> PROVISIONING
      [] op = "releaseProvision"  -> RELEASING

\* values an operation hands around
None == 0
Ids == 1 .. MaxId
ServiceParams == { "sp1", "sp2" }
NoParams == "None"
Msgs == { "e1", "e2" }

\* the result of a deferred: not fired yet, fired with a value (the object
\* itself), or fired with a failure of class cls and message text; a parent
\* failure also carries the children's messages joined into its text
NoResult == [ done |-> FALSE, ok |-> FALSE, cls |-> "-", text |-> "-", msgs |-> << >> ]
Success == [ done |-> TRUE, ok |-> TRUE, cls |-> "-", text |-> "self", msgs |-> << >> ]
Failure(cls, text, msgs) ==
    [ done |-> TRUE, ok |-> FALSE, cls |-> cls, text |-> text, msgs |-> msgs ]
TransitionError ==
    Failure("ConnectionStateTransitionError", "Transition not allowed", << >>)

VARIABLES
    conns,                    \* Connection.connections(): "local" first, then the remotes
    pstate,                   \* Connection._state
    cstate,                   \* _state of every child
    service_parameters,       \* Connection.service_parameters
    internal_reservation_id,  \* LocalConnection.internal_reservation_id
    internal_connection_id,   \* LocalConnection.internal_connection_id
    pending,                  \* per child: the downstream call whose deferred has not fired
    dlop,                     \* operation of the parent's waiting DeferredList, or NoOp
    dlresults,                \* results the DeferredList has collected, by index
    order,                    \* children of the DeferredList in the order their deferreds fired
    pop,                      \* operation of the latest parent call that passed its switchState
    presult,                  \* result of the deferred that call returned
    cresult,                  \* per child: result of the deferred of its latest accepted call
    lastcall,                 \* latest invocation: target (0 = parent), op, raised synchronously
    sw,                       \* latest switchState on a bare ConnectionState object
    history,                  \* states the connection and its local child went through (lifecycle run)
    labels,                   \* Label objects: constructor argument, operands and what the calls gave
    issued,                   \* backend and proxy calls the latest invocation made, in order
    rs,                       \* RequesterService: decoders registered, latest message and its outcome
    links                     \* Link objects of a Path and what the latest call gave

vars ==
    << conns, pstate, cstate, service_parameters, internal_reservation_id,
       internal_connection_id, pending, dlop, dlresults, order, pop,
       presult, cresult, lastcall, sw, history, labels, issued, rs, links >>

Children == 1 .. Len(conns)
\* SubConnection.connection_id of child c
ConnectionId(c) == c
\* connection IDs a proxy reply may carry
ConnIds == 1 .. (MaxRemotes + 2)

NoPending == [ op |-> NoOp, joined |-> FALSE ]
NoCall == [ target |-> 0, op |-> NoOp, raised |-> FALSE ]
NoSwitch == [ from |-> INITIAL, to |-> INITIAL, raised |-> FALSE, count |-> 0 ]
NoHistory == [ parent |-> << >>, local |-> << >> ]
NoValue == [ ok |-> FALSE, values |-> << >>, err |-> "-" ]
NoOut == [ AA |-> NoValue, AB |-> NoValue, BA |-> NoValue,
           AB_C |-> NoValue, A_BC |-> NoValue ]
NoMessage ==
    [ action |-> "none", payload |-> "none", requester |-> "none",
      handler |-> "none", called |-> "none", outcome |-> "none" ]
NoService == [ decoders |-> { }, messages |-> 0, acknowledged |-> 0, last |-> NoMessage ]
NoSTP == [ network |-> "-", port |-> "-", labels |-> << >> ]
NoLinks == [ path |-> << >>, call |-> "none", index |-> 0,
             out |-> [ ok |-> FALSE, stp |-> NoSTP, err |-> "-" ] ]
NoPick == [ ok |-> FALSE, range |-> << >>, value |-> 0, err |-> "-" ]
NoLabels ==
    [ phase |-> "none", arg |-> [ kind |-> "None", text |-> << >>, tokens |-> << >> ],
      made |-> NoValue, A |-> << >>, B |-> << >>, C |-> << >>, out |-> NoOut,
      printed |-> << >>, reparsed |-> NoValue, reprinted |-> << >>,
      picked |-> NoPick, enumerated |-> << >> ]

\* Connection.connections() for every shape of connection that is modelled
Configs ==
    { l \o r : l \in { << >>, << "local" >> },
               r \in UNION { [ 1 .. k -> { "remote" } ] : k \in 0 .. MaxRemotes } }

InitConnection ==
    /\ conns \in Configs
    /\ pstate = INITIAL
    /\ cstate = [ c \in 1 .. Len(conns) |-> INITIAL ]
    /\ service_parameters = NoParams
    /\ internal_reservation_id = None
    /\ internal_connection_id = None
    /\ pending = [ c \in 1 .. Len(conns) |-> NoPending ]
    /\ dlop = NoOp
    /\ dlresults = [ c \in 1 .. Len(conns) |-> NoResult ]
    /\ order = << >>
    /\ pop = NoOp
    /\ presult = NoResult
    /\ cresult = [ c \in 1 .. Len(conns) |-> NoResult ]
    /\ lastcall = NoCall
    /\ issued = << >>
    /\ sw = NoSwitch

Init ==
    InitConnection /\ history = NoHistory /\ labels = NoLabels /\ rs = NoService /\ links = NoLinks

(* --------------------- SubConnection (remote child) -------------------- *)
\* what a callback of a child leaves behind: the child's state, the result its
\* deferred carries on, and the two IDs of the local connection
Outcome(state, res, rid, cid) ==
    [ state |-> state, res |-> res, rid |-> rid, cid |-> cid ]

\* a success callback made of a switchState and "return self"
SwitchAndReturnSelf(st, new_state, rid, cid) ==
    LET s == switchState(st, new_state) IN
    Outcome(s.state, IF s.raised THEN TransitionError ELSE Success, rid, cid)

\* a failure callback: switchState(TERMINATED) and "return err"
SwitchAndReturnErr(st, err, rid, cid) ==
    LET s == switchState(st, TERMINATED) IN
    Outcome(s.state, IF s.raised THEN TransitionError ELSE Failure("Failure", err, << >>), rid, cid)

\* reservationDone / cancelDone / provisionDone / releaseDone of SubConnection;
\* conn_id is the value the proxy's deferred fired with
SubConnectionDone(op, c, st, conn_id) ==
    CASE op = "reservation" -> SwitchAndReturnSelf(st, RESERVED, None, None)
      [] op = "cancelReservation" -> SwitchAndReturnSelf(st, TERMINATED, None, None)
      [] op = "provision" ->
            IF conn_id # ConnectionId(c)
            THEN Outcome(st, Failure("AssertionError", "", << >>), None, None)
            ELSE SwitchAndReturnSelf(st, PROVISIONED, None, None)
      [] op = "releaseProvision" ->
            IF conn_id # ConnectionId(c)
            THEN Outcome(st, Failure("AssertionError", "", << >>), None, None)
            ELSE SwitchAndReturnSelf(st, RESERVED, None, None)

\* a cancelFailed that puts the reservation back instead of terminating
SubConnectionFailed_KeepsReservation(op, st, err) ==
    IF op = "cancelReservation"
    THEN Outcome(RESERVED, Failure("Failure", err, << >>), None, None)
    ELSE SwitchAndReturnErr(st, err, None, None)

\* reservationFailed / cancelFailed / provisionFailed / releaseFailed of SubConnection
SubConnectionFailed(op, st, err) == SwitchAndReturnErr(st, err, None, None)

(* ----------------------- LocalConnection (child) ----------------------- *)
\* a release that forgets to return to Reserved
LocalConnectionDone_StuckRelease(op, st, id, rid, cid) ==
    CASE op = "reservation" -> SwitchAndReturnSelf(st, RESERVED, id, cid)
      [] op = "cancelReservation" -> SwitchAndReturnSelf(st, TERMINATED, rid, cid)
      [] op = "provision" -> SwitchAndReturnSelf(st, PROVISIONED, rid, id)
      [] op = "releaseProvision" -> Outcome(st, Success, id, None)

LocalConnectionDone_ReleaseKeepsConnection(op, st, id, rid, cid) ==
    CASE op = "reservation" -> SwitchAndReturnSelf(st, RESERVED, id, cid)
      [] op = "cancelReservation" -> SwitchAndReturnSelf(st, TERMINATED, rid, cid)
      [] op = "provision" -> SwitchAndReturnSelf(st, PROVISIONED, rid, id)
      [] op = "releaseProvision" -> SwitchAndReturnSelf(st, RESERVED, id, cid)

\* reservationDone / cancelDone / provisionDone / releaseDone of LocalConnection;
\* id is the value the backend's deferred fired with, rid and cid the IDs held
LocalConnectionDone(op, st, id, rid, cid) ==
    CASE op = "reservation" -> SwitchAndReturnSelf(st, RESERVED, id, cid)
      [] op = "cancelReservation" -> SwitchAndReturnSelf(st, TERMINATED, rid, cid)
      [] op = "provision" -> SwitchAndReturnSelf(st, PROVISIONED, rid, id)
      [] op = "releaseProvision" -> SwitchAndReturnSelf(st, RESERVED, id, None)

\* reservationFailed / cancelFailed / provisionFailed / releaseFailed of LocalConnection
LocalConnectionFailed(op, st, err, rid, cid) == SwitchAndReturnErr(st, err, rid, cid)

(* ------------------- Connection (aggregating parent) ------------------- *)
\* successes = [ r[0] for r in results ], over connections() in order
AllSucceeded_NeedsOne(res) == Len(res) > 0 /\ \A c \in DOMAIN res : res[c].ok

AllSucceeded(res) == \A c \in DOMAIN res : res[c].ok
AnySucceeded(res) == \E c \in DOMAIN res : res[c].ok

\* ' # '.join of getErrorMessage() of the listed results, kept as a sequence
RECURSIVE ErrorMessages(_, _, _)
ErrorMessages(res, c, onlyFailed) ==
    IF c > Len(res) THEN << >>
    ELSE (IF onlyFailed /\ res[c].ok THEN << >> ELSE << res[c].text >>)
         \o ErrorMessages(res, c + 1, onlyFailed)

\* message texts of the four parent callbacks
PartialText(op) ==
    CASE op = "reservation"       -> "Partial failure in reservation, may require manual cleanup"
      [] op = "cancelReservation" -> "Cancel partially failed (may require manual cleanup)"
      [] op = "provision"         -> "Provision partially failed (may require manual cleanup)"
      [] op = "releaseProvision"  -> "Release partially failed (may require manual cleanup)"

TotalText(op) ==
    CASE op = "reservation"       -> "Reservation failed for all local/sub connections"
      [] op = "cancelReservation" -> "Cancel failed for all local/sub connections"
      [] op = "provision"         -> "Provision failed for all local/sub connections"
      [] op = "releaseProvision"  -> "Release failed for all local/sub connection"

\* what a parent callback leaves behind: the parent's state and the result of
\* the deferred the parent call returned
Collapsed(s, res) ==
    [ state |-> s.state, res |-> IF s.raised THEN TransitionError ELSE res ]

\* a reservationRequestsDone that is content with any(successes)
reservationRequestsDone_AnyIsEnough(pst, results) ==
    IF AnySucceeded(results)
    THEN Collapsed(switchState(pst, RESERVED), Success)
    ELSE Collapsed(switchState(pst, TERMINATED),
            Failure("ReserveError", TotalText("reservation"),
                    ErrorMessages(results, 1, FALSE)))

\* Connection.reservation.reservationRequestsDone
reservationRequestsDone(pst, results) ==
    IF AllSucceeded(results)
    THEN Collapsed(switchState(pst, RESERVED), Success)
    ELSE Collapsed(switchState(pst, TERMINATED),
            IF AnySucceeded(results)
            THEN Failure("ReserveError", PartialText("reservation"),
                         ErrorMessages(results, 1, TRUE))
            ELSE Failure("ReserveError", TotalText("reservation"),
                         ErrorMessages(results, 1, FALSE)))

\* a connectionCancelled that raises before it switches the state
connectionCancelled_RaisesFirst(pst, results) ==
    IF AllSucceeded(results)
    THEN Collapsed(switchState(pst, TERMINATED), Success)
    ELSE IF AnySucceeded(results)
    THEN [ state |-> pst,
           res |-> Failure("CancelReservationError", PartialText("cancelReservation"), << >>) ]
    ELSE [ state |-> pst,
           res |-> Failure("CancelReservationError", TotalText("cancelReservation"), << >>) ]

\* Connection.cancelReservation.connectionCancelled
connectionCancelled(pst, results) ==
    IF AllSucceeded(results)
    THEN Collapsed(switchState(pst, TERMINATED), Success)
    ELSE IF AnySucceeded(results)
    THEN Collapsed(switchState(pst, TERMINATED),
            Failure("CancelReservationError", PartialText("cancelReservation"), << >>))
    ELSE Collapsed(switchState(pst, TERMINATED),
            Failure("CancelReservationError", TotalText("cancelReservation"), << >>))

\* a provisionComplete that tests the last result only
provisionComplete_LastOnly(pst, results) ==
    IF Len(results) = 0 \/ results[Len(results)].ok
    THEN Collapsed(switchState(pst, PROVISIONED), Success)
    ELSE IF AnySucceeded(results)
    THEN Collapsed(switchState(pst, TERMINATED),
            Failure("ProvisionError", PartialText("provision"), << >>))
    ELSE Collapsed(switchState(pst, TERMINATED),
            Failure("ProvisionError", TotalText("provision"), << >>))

\* Connection.provision.provisionComplete
provisionComplete(pst, results) ==
    IF AllSucceeded(results)
    THEN Collapsed(switchState(pst, PROVISIONED), Success)
    ELSE IF AnySucceeded(results)
    THEN Collapsed(switchState(pst, TERMINATED),
            Failure("ProvisionError", PartialText("provision"), << >>))
    ELSE Collapsed(switchState(pst, TERMINATED),
            Failure("ProvisionError", TotalText("provision"), << >>))

\* a connectionReleased with the two error branches the wrong way round
connectionReleased_BranchesSwapped(pst, results) ==
    IF AllSucceeded(results)
    THEN Collapsed(switchState(pst, RESERVED), Success)
    ELSE IF ~AnySucceeded(results)
    THEN Collapsed(switchState(pst, TERMINATED),
            Failure("ReleaseError", PartialText("releaseProvision"), << >>))
    ELSE Collapsed(switchState(pst, TERMINATED),
            Failure("ReleaseError", TotalText("releaseProvision"), << >>))

\* Connection.releaseProvision.connectionReleased
connectionReleased(pst, results) ==
    IF AllSucceeded(results)
    THEN Collapsed(switchState(pst, RESERVED), Success)
    ELSE IF AnySucceeded(results)
    THEN Collapsed(switchState(pst, TERMINATED),
            Failure("ReleaseError", PartialText("releaseProvision"), << >>))
    ELSE Collapsed(switchState(pst, TERMINATED),
            Failure("ReleaseError", TotalText("releaseProvision"), << >>))

\* the callback each parent method attaches to its DeferredList
ParentCallback(op, pst, results) ==
    CASE op = "reservation"       -> reservationRequestsDone(pst, results)
      [] op = "cancelReservation" -> connectionCancelled(pst, results)
      [] op = "provision"         -> provisionComplete(pst, results)
      [] op = "releaseProvision"  -> connectionReleased(pst, results)

\* a DeferredList that fires on the first result (fireOnOneCallback)
DeferredListFired_OnFirstResult(results) ==
    \/ \A c \in DOMAIN results : results[c].done
    \/ \E c \in DOMAIN results : results[c].done

\* a DeferredList that fires on the first failure (fireOnOneErrback)
DeferredListFired_OnFirstError(results) ==
    \/ \A c \in DOMAIN results : results[c].done
    \/ \E c \in DOMAIN results : results[c].done /\ ~results[c].ok

\* defer.DeferredList(defs): fires once every deferred of the list has fired
\* (at once for an empty list)
DeferredListFired_OnSuccessOnly(results) ==
    \A c \in DOMAIN results : results[c].done /\ results[c].ok

DeferredListFired(results) == \A c \in DOMAIN results : results[c].done

(* -------------------------------- actions ------------------------------ *)
\* the call child c makes when its method <op> is accepted: on the backend
\* for the local child, on the proxy for a remote child
DownstreamCall(c, op) ==
    [ on |-> IF conns[c] = "local" THEN "backend" ELSE "proxy", child |-> c, op |-> op ]

\* the ID the local child hands to the backend with its call: none for
\* reserve (endpoints and parameters), the reservation ID for
\* cancelReservation and provision, the connection ID for releaseProvision
BackendArgument(op) ==
    CASE op = "reservation" -> None
      [] op = "cancelReservation" -> internal_reservation_id
      [] op = "provision" -> internal_reservation_id
      [] op = "releaseProvision" -> internal_connection_id

\* the first child of connections() whose method raises when the parent
\* method walks the list (Len(conns) + 1 when none does)
FirstRefusing(op) ==
    LET refusing == { c \in Children : switchState(cstate[c], InFlightState(op)).raised } IN
    IF refusing = { } THEN Len(conns) + 1
    ELSE CHOOSE c \in refusing : \A d \in refusing : c <= d

\* a parent method that starts its children before its own switchState
ConnectionCall_LaunchFirst(op) ==
    LET s == switchState(pstate, InFlightState(op)) IN
    /\ pstate' = s.state
    /\ cstate' = [ c \in Children |-> switchState(cstate[c], InFlightState(op)).state ]
    /\ pending' = [ c \in Children |->
                      IF switchState(cstate[c], InFlightState(op)).raised THEN pending[c]
                      ELSE [ op |-> op, joined |-> ~s.raised ] ]
    /\ lastcall' = [ target |-> 0, op |-> op, raised |-> s.raised ]
    /\ issued' = [ c \in Children |-> DownstreamCall(c, op) ]
    /\ dlop' = IF s.raised THEN dlop ELSE op
    /\ pop' = IF s.raised THEN pop ELSE op
    /\ presult' = IF s.raised THEN presult ELSE NoResult
    /\ dlresults' = [ c \in Children |-> NoResult ]
    /\ cresult' = [ c \in Children |-> NoResult ]
    /\ order' = << >>

\* the part the four parent methods share: switchState to the in-flight
\* state, "for sc in self.connections(): defs.append(sc.<op>())", then the
\* DeferredList with the method's callback
ConnectionCall(op) ==
    LET s == switchState(pstate, InFlightState(op))
        stop == FirstRefusing(op)
        reached == { c \in Children : c < stop }
        started == [ c \in Children |->
                       IF c \in reached
                       THEN switchState(cstate[c], InFlightState(op)).state
                       ELSE cstate[c] ]
        fresh == [ c \in Children |-> NoResult ]
    IN
    IF s.raised
    THEN \* the parent's own switchState raised: nothing is launched
         /\ pstate' = s.state
         /\ lastcall' = [ target |-> 0, op |-> op, raised |-> TRUE ]
         /\ issued' = << >>
         /\ UNCHANGED << cstate, pending, dlop, dlresults, order, pop, presult, cresult >>
    ELSE IF stop <= Len(conns)
    THEN \* a child's method raised inside the loop: the exception leaves the
         \* parent method, no DeferredList is built
         /\ pstate' = s.state
         /\ cstate' = started
         /\ pending' = [ c \in Children |->
                           IF c \in reached THEN [ op |-> op, joined |-> FALSE ]
                           ELSE pending[c] ]
         /\ cresult' = [ c \in Children |-> IF c \in reached THEN NoResult ELSE cresult[c] ]
         /\ lastcall' = [ target |-> 0, op |-> op, raised |-> TRUE ]
         /\ issued' = [ c \in 1 .. (stop - 1) |-> DownstreamCall(c, op) ]
         /\ pop' = op
         /\ presult' = NoResult
         /\ UNCHANGED << dlop, dlresults, order >>
    ELSE /\ cstate' = started
         /\ pending' = [ c \in Children |-> [ op |-> op, joined |-> TRUE ] ]
         /\ cresult' = fresh
         /\ lastcall' = [ target |-> 0, op |-> op, raised |-> FALSE ]
         /\ issued' = [ c \in Children |-> DownstreamCall(c, op) ]
         /\ order' = << >>
         /\ dlresults' = fresh
         /\ pop' = op
         /\ IF DeferredListFired(fresh)
            THEN LET a == ParentCallback(op, s.state, fresh) IN
                 /\ pstate' = a.state
                 /\ presult' = a.res
                 /\ dlop' = NoOp
            ELSE /\ pstate' = s.state
                 /\ presult' = NoResult
                 /\ dlop' = op

\* Connection.reservation
ConnectionReservation(sp) ==
    /\ service_parameters' = sp
    /\ ConnectionCall("reservation")
    /\ UNCHANGED << conns, internal_reservation_id, internal_connection_id, sw, history, labels, rs, links >>

\* Connection.cancelReservation
ConnectionCancelReservation ==
    /\ ConnectionCall("cancelReservation")
    /\ UNCHANGED << conns, service_parameters, internal_reservation_id,
                    internal_connection_id, sw, history, labels, rs, links >>

\* Connection.provision
ConnectionProvision ==
    /\ ConnectionCall("provision")
    /\ UNCHANGED << conns, service_parameters, internal_reservation_id,
                    internal_connection_id, sw, history, labels, rs, links >>

\* Connection.releaseProvision
ConnectionReleaseProvision ==
    /\ ConnectionCall("releaseProvision")
    /\ UNCHANGED << conns, service_parameters, internal_reservation_id,
                    internal_connection_id, sw, history, labels, rs, links >>

\* the deferred of child c fires and its callback chain leaves outcome o; when
\* the deferred belongs to the parent's DeferredList the result is stored by
\* index and, once the list has fired, the parent's callback runs
Deliver_ReissuesFailed(c, o) ==
    /\ cstate' = [ cstate EXCEPT ![c] = o.state ]
    /\ pending' = [ pending EXCEPT ![c] = NoPending ]
    /\ cresult' = [ cresult EXCEPT ![c] = o.res ]
    /\ IF pending[c].joined /\ dlop # NoOp
       THEN LET results == [ dlresults EXCEPT ![c] = o.res ] IN
            /\ dlresults' = results
            /\ order' = Append(order, c)
            /\ IF DeferredListFired(results)
               THEN LET a == ParentCallback(dlop, pstate, results) IN
                    /\ pstate' = a.state
                    /\ presult' = a.res
                    /\ dlop' = NoOp
               ELSE UNCHANGED << pstate, presult, dlop >>
       ELSE UNCHANGED << pstate, presult, dlop, dlresults, order >>
    /\ issued' = IF o.res.ok THEN << >> ELSE << DownstreamCall(c, pending[c].op) >>
    /\ UNCHANGED << conns, service_parameters, pop, lastcall, sw >>

Deliver(c, o) ==
    /\ cstate' = [ cstate EXCEPT ![c] = o.state ]
    /\ pending' = [ pending EXCEPT ![c] = NoPending ]
    /\ cresult' = [ cresult EXCEPT ![c] = o.res ]
    /\ IF pending[c].joined /\ dlop # NoOp
       THEN LET results == [ dlresults EXCEPT ![c] = o.res ] IN
            /\ dlresults' = results
            /\ order' = Append(order, c)
            /\ IF DeferredListFired(results)
               THEN LET a == ParentCallback(dlop, pstate, results) IN
                    /\ pstate' = a.state
                    /\ presult' = a.res
                    /\ dlop' = NoOp
               ELSE UNCHANGED << pstate, presult, dlop >>
       ELSE UNCHANGED << pstate, presult, dlop, dlresults, order >>
    /\ issued' = << >>
    /\ UNCHANGED << conns, service_parameters, pop, lastcall, sw >>

\* the backend's deferred of the local child fires with a value
BackendSucceeds(c, id) ==
    /\ c \in Children
    /\ conns[c] = "local"
    /\ pending[c].op # NoOp
    /\ LET o == LocalConnectionDone(pending[c].op, cstate[c], id,
                                    internal_reservation_id, internal_connection_id) IN
       /\ Deliver(c, o)
       /\ internal_reservation_id' = o.rid
       /\ internal_connection_id' = o.cid
    /\ UNCHANGED << history, labels, rs, links >>

\* the backend's deferred of the local child fires with a failure
BackendFails(c, err) ==
    /\ c \in Children
    /\ conns[c] = "local"
    /\ pending[c].op # NoOp
    /\ LET o == LocalConnectionFailed(pending[c].op, cstate[c], err,
                                      internal_reservation_id, internal_connection_id) IN
       /\ Deliver(c, o)
       /\ internal_reservation_id' = o.rid
       /\ internal_connection_id' = o.cid
    /\ UNCHANGED << history, labels, rs, links >>

\* the proxy's deferred of a remote child fires with a value
ProxySucceeds(c, conn_id) ==
    /\ c \in Children
    /\ conns[c] = "remote"
    /\ pending[c].op # NoOp
    /\ Deliver(c, SubConnectionDone(pending[c].op, c, cstate[c], conn_id))
    /\ UNCHANGED << internal_reservation_id, internal_connection_id, history, labels, rs, links >>

\* the proxy's deferred of a remote child fires with a failure
ProxyFails(c, err) ==
    /\ c \in Children
    /\ conns[c] = "remote"
    /\ pending[c].op # NoOp
    /\ Deliver(c, SubConnectionFailed(pending[c].op, cstate[c], err))
    /\ UNCHANGED << internal_reservation_id, internal_connection_id, history, labels, rs, links >>

Next ==
    \/ \E sp \in ServiceParams : ConnectionReservation(sp)
    \/ ConnectionCancelReservation
    \/ ConnectionProvision
    \/ ConnectionReleaseProvision
    \/ \E c \in 1 .. (MaxRemotes + 1), id \in Ids : BackendSucceeds(c, id)
    \/ \E c \in 1 .. (MaxRemotes + 1), err \in Msgs : BackendFails(c, err)
    \/ \E c \in 1 .. (MaxRemotes + 1), conn_id \in ConnIds : ProxySucceeds(c, conn_id)
    \/ \E c \in 1 .. (MaxRemotes + 1), err \in Msgs : ProxyFails(c, err)

\* the aggregating connection driven by its requester only
Spec == Init /\ [][Next]_vars

\* the deferred of child c's outstanding backend or proxy call fires
Completes(c) ==
    \/ \E id \in Ids : BackendSucceeds(c, id)
    \/ \E err \in Msgs : BackendFails(c, err)
    \/ \E conn_id \in ConnIds : ProxySucceeds(c, conn_id)
    \/ \E err \in Msgs : ProxyFails(c, err)

\* the same connection with a backend and proxies that answer every call:
\* an outstanding deferred does not stay unfired forever
FairInit == Init /\ Len(conns) <= MaxFair

FairSpec ==
    FairInit /\ [][Next]_vars /\ \A c \in 1 .. (MaxRemotes + 1) : WF_vars(Completes(c))

\* a sub-connection method that issues the downstream call before it switches
SubCall_CallsFirst(c, op) ==
    /\ c \in Children
    /\ LET s == switchState(cstate[c], InFlightState(op)) IN
       /\ cstate' = [ cstate EXCEPT ![c] = s.state ]
       /\ lastcall' = [ target |-> c, op |-> op, raised |-> s.raised ]
       /\ issued' = << DownstreamCall(c, op) >>
       /\ pending' = [ pending EXCEPT ![c] = [ op |-> op, joined |-> FALSE ] ]
       /\ cresult' = [ cresult EXCEPT ![c] = NoResult ]
    /\ UNCHANGED << conns, pstate, service_parameters, internal_reservation_id,
                    internal_connection_id, dlop, dlresults, order, pop, presult, sw,
                    history, labels, rs, links >>

\* a method of a sub-connection invoked on the child itself, not through the
\* parent: LocalConnection.<op> / SubConnection.<op> up to "return d"
SubCall(c, op) ==
    /\ c \in Children
    /\ LET s == switchState(cstate[c], InFlightState(op)) IN
       /\ cstate' = [ cstate EXCEPT ![c] = s.state ]
       /\ lastcall' = [ target |-> c, op |-> op, raised |-> s.raised ]
       /\ issued' = IF s.raised THEN << >> ELSE << DownstreamCall(c, op) >>
       /\ IF s.raised
          THEN UNCHANGED << pending, cresult >>
          ELSE /\ pending' = [ pending EXCEPT ![c] = [ op |-> op, joined |-> FALSE ] ]
               /\ cresult' = [ cresult EXCEPT ![c] = NoResult ]
    /\ UNCHANGED << conns, pstate, service_parameters, internal_reservation_id,
                    internal_connection_id, dlop, dlresults, order, pop, presult, sw,
                    history, labels, rs, links >>

DirectNext ==
    \/ Next
    \/ \E c \in 1 .. (MaxRemotes + 1), op \in Ops : SubCall(c, op)

\* the same connection when its sub-connections are also invoked directly
DirectInit == Init /\ Len(conns) <= MaxDirect

DirectSpec == DirectInit /\ [][DirectNext]_vars

(* ------------------- a bare ConnectionState object --------------------- *)
\* ConnectionState.__init__(state): any state may be given
SMInit ==
    /\ conns = << >>
    /\ pstate \in States
    /\ cstate = << >>
    /\ service_parameters = NoParams
    /\ internal_reservation_id = None
    /\ internal_connection_id = None
    /\ pending = << >>
    /\ dlop = NoOp
    /\ dlresults = << >>
    /\ order = << >>
    /\ pop = NoOp
    /\ presult = NoResult
    /\ cresult = << >>
    /\ lastcall = NoCall
    /\ issued = << >>
    /\ sw = [ from |-> pstate, to |-> pstate, raised |-> FALSE, count |-> 0 ]
    /\ history = NoHistory
    /\ labels = NoLabels
    /\ rs = NoService
    /\ links = NoLinks

\* ConnectionState.switchState(new_state) called on the object
SMSwitchState(new_state) ==
    /\ sw.count < MaxSwitch
    /\ LET s == switchState(pstate, new_state) IN
       /\ pstate' = s.state
       /\ sw' = [ from |-> pstate, to |-> new_state, raised |-> s.raised,
                  count |-> sw.count + 1 ]
    /\ UNCHANGED << conns, cstate, service_parameters, internal_reservation_id,
                    internal_connection_id, pending, dlop, dlresults, order,
                    pop, presult, cresult, lastcall, issued, history, labels, rs,
                    links >>

SMNext == \E new_state \in States : SMSwitchState(new_state)

SMSpec == SMInit /\ [][SMNext]_vars

(* ------------------------------ nsa.Label ------------------------------ *)
\* characters of the textual form of label values
DigitChars == << "0", "1", "2", "3", "4", "5", "6", "7", "8", "9" >>

IsDigit(ch) == \E i \in 1 .. Len(DigitChars) : DigitChars[i] = ch
DigitValue(ch) == (CHOOSE i \in 1 .. Len(DigitChars) : DigitChars[i] = ch) - 1

\* int(v) does not raise ValueError: an optional sign, then digits only
IntParses(v) ==
    LET body == IF Len(v) > 0 /\ v[1] = "-" THEN Tail(v) ELSE v IN
    Len(body) > 0 /\ \A i \in 1 .. Len(body) : IsDigit(body[i])

RECURSIVE Magnitude(_)
Magnitude(v) ==
    IF v = << >> THEN 0
    ELSE 10 * Magnitude(SubSeq(v, 1, Len(v) - 1)) + DigitValue(v[Len(v)])

\* int(v) for a text that parses
IntOf(v) == IF v[1] = "-" THEN 0 - Magnitude(Tail(v)) ELSE Magnitude(v)

RECURSIVE Digits(_)
Digits(n) ==
    IF n < 10 THEN << DigitChars[n + 1] >>
    ELSE Digits(n \div 10) \o << DigitChars[(n % 10) + 1] >>

\* '%i' % n and '%s' % n of an integer
Str(n) == IF n < 0 THEN << "-" >> \o Digits(0 - n) ELSE Digits(n)

\* index of the first occurrence of ch in the text s, 0 when there is none
FirstIndex(s, ch) ==
    LET at == { i \in 1 .. Len(s) : s[i] = ch } IN
    IF at = { } THEN 0 ELSE CHOOSE i \in at : \A j \in at : i <= j

\* s.split(sep)
RECURSIVE split(_, _)
split(s, sep) ==
    LET k == FirstIndex(s, sep) IN
    IF k = 0 THEN << s >>
    ELSE << SubSeq(s, 1, k - 1) >> \o split(SubSeq(s, k + 1, Len(s)), sep)

\* sep.join(parts)
RECURSIVE join(_, _)
join(sep, parts) ==
    IF parts = << >> THEN << >>
    ELSE IF Len(parts) = 1 THEN parts[1]
    ELSE parts[1] \o << sep >> \o join(sep, Tail(parts))

\* what a Label operation gives: the list of ranges, or the exception raised
Values(nv) == [ ok |-> TRUE, values |-> nv, err |-> "-" ]
Raised(err) == [ ok |-> FALSE, values |-> << >>, err |-> err ]

\* a variant that takes a range as written, ascending or not
createValue_NoOrderCheck(value) ==
    LET k == FirstIndex(value, "-") IN
    IF k > 0
    THEN LET v1 == SubSeq(value, 1, k - 1)
             v2 == SubSeq(value, k + 1, Len(value)) IN
         IF ~IntParses(v1) \/ ~IntParses(v2) THEN Raised("PayloadError")
         ELSE Values(<< << IntOf(v1), IntOf(v2) >> >>)
    ELSE IF ~IntParses(value) THEN Raised("PayloadError")
         ELSE Values(<< << IntOf(value), IntOf(value) >> >>)

\* createValue(value) of _parseLabelValues
createValue(value) ==
    LET k == FirstIndex(value, "-") IN
    IF k > 0
    THEN LET v1 == SubSeq(value, 1, k - 1)
             v2 == SubSeq(value, k + 1, Len(value)) IN
         IF ~IntParses(v1) \/ ~IntParses(v2) THEN Raised("PayloadError")
         ELSE IF IntOf(v1) > IntOf(v2) THEN Raised("PayloadError")
         ELSE Values(<< << IntOf(v1), IntOf(v2) >> >>)
    ELSE IF ~IntParses(value) THEN Raised("PayloadError")
         ELSE Values(<< << IntOf(value), IntOf(value) >> >>)

\* order of python tuples
TupleLess(p, q) == p[1] < q[1] \/ (p[1] = q[1] /\ p[2] < q[2])

RECURSIVE Insert(_, _)
Insert(p, s) ==
    IF s = << >> THEN << p >>
    ELSE IF TupleLess(s[1], p) THEN << s[1] >> \o Insert(p, Tail(s))
    ELSE << p >> \o s

\* sorted(list of tuples)
RECURSIVE sorted(_)
sorted(s) == IF s = << >> THEN << >> ELSE Insert(s[1], sorted(Tail(s)))

Max(a, b) == IF a >= b THEN a ELSE b
Min(a, b) == IF a <= b THEN a ELSE b

\* a variant that merges overlapping ranges only
ShouldMerge_OverlapOnly(l, v) == v[1] <= l[2]

\* "if v1 <= l[1] + 1: # merge", l the last range kept and v the next one
ShouldMerge(l, v) == v[1] <= l[2] + 1

\* the loop of _parseLabelValues that builds nv from the sorted ranges
RECURSIVE MergeLoop(_, _)
MergeLoop(parsed_values, nv) ==
    IF parsed_values = << >> THEN nv
    ELSE LET v == parsed_values[1]
             rest == Tail(parsed_values) IN
         IF Len(nv) = 0 THEN MergeLoop(rest, << v >>)
         ELSE LET l == nv[Len(nv)] IN
              IF ShouldMerge(l, v)
              THEN MergeLoop(rest, SubSeq(nv, 1, Len(nv) - 1)
                                     \o << << l[1], Max(l[2], v[2]) >> >>)
              ELSE MergeLoop(rest, Append(nv, v))

\* Label._parseLabelValues on a list of tokens (a str has been split)
parseLabelValues(values) ==
    LET created == [ i \in 1 .. Len(values) |-> createValue(values[i]) ]
        failed == { i \in 1 .. Len(values) : ~created[i].ok } IN
    IF failed # { } THEN created[CHOOSE i \in failed : \A j \in failed : i <= j]
    ELSE Values(MergeLoop(sorted([ i \in 1 .. Len(values) |-> created[i].values[1] ]), << >>))

\* the values argument of Label(type_, values): None, a str or a list of str
NoneValues == [ kind |-> "None", text |-> << >>, tokens |-> << >> ]
StrValues(text) == [ kind |-> "str", text |-> text, tokens |-> << >> ]
ListValues(tokens) == [ kind |-> "list", text |-> << >>, tokens |-> tokens ]

\* Label.__init__: the ranges the new Label holds, or the exception
Label(values) ==
    IF values.kind = "None" THEN Raised("AssertionError")
    ELSE IF values.kind = "str" THEN parseLabelValues(split(values.text, ","))
    ELSE parseLabelValues(values.tokens)

\* a variant of the inner loop that moves to the next range of other
\* whenever a range of self has been used up
IntersectWhile_AdvancesOnTie(v, other, oi, label_values) ==
    LET o == other[oi] IN
    IF v[2] < o[1] \/ o[2] < v[1]
    THEN [ oi |-> oi, label_values |-> label_values ]
    ELSE [ oi |-> IF oi < Len(other) THEN oi + 1 ELSE oi,
           label_values |-> Append(label_values, << Max(v[1], o[1]), Min(v[2], o[2]) >>) ]

\* "while True:" of intersect for the range v of self, other[oi] being
\* (o1, o2); i.next() raises StopIteration when oi is the last index
RECURSIVE IntersectWhile(_, _, _, _)
IntersectWhile(v, other, oi, label_values) ==
    LET o == other[oi] IN
    IF v[2] < o[1] THEN [ oi |-> oi, label_values |-> label_values ]
    ELSE IF o[2] < v[1]
    THEN IF oi < Len(other) THEN IntersectWhile(v, other, oi + 1, label_values)
         ELSE [ oi |-> oi, label_values |-> label_values ]
    ELSE LET appended == Append(label_values, << Max(v[1], o[1]), Min(v[2], o[2]) >>) IN
         IF v[2] <= o[2] THEN [ oi |-> oi, label_values |-> appended ]
         ELSE IF oi < Len(other) THEN IntersectWhile(v, other, oi + 1, appended)
         ELSE [ oi |-> oi, label_values |-> appended ]

\* "for v1, v2 in self.values:" of intersect, from the range at index vi
RECURSIVE IntersectFor(_, _, _, _, _)
IntersectFor(self, other, vi, oi, label_values) ==
    IF vi > Len(self) THEN label_values
    ELSE LET w == IntersectWhile(self[vi], other, oi, label_values) IN
         IntersectFor(self, other, vi + 1, w.oi, w.label_values)

\* Label.intersect for two labels of one type, given by their ranges
intersect(self, other) ==
    IF Len(other) = 0 THEN Raised("StopIteration")
    ELSE LET label_values == IntersectFor(self, other, 1, 1, << >>) IN
         IF Len(label_values) = 0 THEN Raised("EmptyLabelSet")
         ELSE Label(StrValues(join(",",
                  [ i \in 1 .. Len(label_values) |->
                      Str(label_values[i][1]) \o << "-" >> \o Str(label_values[i][2]) ])))

\* a variant that prints the low end of every range only
labelValue_LowOnly(values) ==
    join(",", [ i \in 1 .. Len(values) |-> Str(values[i][1]) ])

\* Label.labelValue
labelValue(values) ==
    join(",", [ i \in 1 .. Len(values) |->
                  IF values[i][1] = values[i][2] THEN Str(values[i][1])
                  ELSE Str(values[i][1]) \o << "-" >> \o Str(values[i][2]) ])

\* range(a, b) of python
RECURSIVE range(_, _)
range(a, b) == IF a >= b THEN << >> ELSE << a >> \o range(a + 1, b)

\* Label.enumerateValues
RECURSIVE enumerateValues(_)
enumerateValues(values) ==
    IF values = << >> THEN << >>
    ELSE range(values[1][1], values[1][2] + 1) \o enumerateValues(Tail(values))

\* random.randint(a, b): any integer N with a <= N <= b
randint(a, b) == a .. b

\* what Label.randomLabel may give: the range random.choice picked and the
\* value returned, or the IndexError of random.choice on an empty list
randomLabel(values) ==
    IF Len(values) = 0
    THEN { [ ok |-> FALSE, range |-> << >>, value |-> 0, err |-> "IndexError" ] }
    ELSE UNION { { [ ok |-> TRUE, range |-> values[i], value |-> v, err |-> "-" ] :
                     v \in randint(values[i][1], values[i][2] + 1) } :
                 i \in 1 .. Len(values) }

\* x.intersect(y) where x and y are themselves results of calls
intersectOf(x, y) ==
    IF ~x.ok THEN x ELSE IF ~y.ok THEN y ELSE intersect(x.values, y.values)

\* Label.__eq__ for two labels of one type
LabelEq(a, b) == sorted(a) = sorted(b)

\* tokens a caller may write: a value, a range in either order, and texts
\* that are neither
Numbers == 0 .. MaxVal
Tokens ==
    { Str(n) : n \in Numbers }
        \cup { Str(n) \o << "-" >> \o Str(m) : n, m \in Numbers }
        \cup { << >>, << "x" >>, << "1", "-" >>, << "-", "1" >> }

\* one token for each range a label over Numbers can hold
MaxTokens == (MaxVal + 2) \div 2

\* lists of at most n tokens
TokenLists(n) == UNION { [ 1 .. k -> Tokens ] : k \in 0 .. n }

\* arguments of the constructor written with at most n tokens
LabelArgs(n) ==
    { NoneValues } \cup { StrValues(join(",", ts)) : ts \in TokenLists(n) }
                   \cup { ListValues(ts) : ts \in TokenLists(n) }

\* the lists of ranges the constructor gives a Label for those arguments
ConstructibleLabels(n) ==
    { r.values : r \in { x \in { Label(a) : a \in LabelArgs(n) } : x.ok } }

\* the fields of the connection objects, which no Label operation touches
ConnectionVars ==
    << conns, pstate, cstate, service_parameters, internal_reservation_id,
       internal_connection_id, pending, dlop, dlresults, order, pop,
       presult, cresult, lastcall, issued, sw, history >>

\* either an argument for the constructor, or three Labels of one type
LabelInit ==
    /\ conns = << >>
    /\ pstate = INITIAL
    /\ cstate = << >>
    /\ service_parameters = NoParams
    /\ internal_reservation_id = None
    /\ internal_connection_id = None
    /\ pending = << >>
    /\ dlop = NoOp
    /\ dlresults = << >>
    /\ order = << >>
    /\ pop = NoOp
    /\ presult = NoResult
    /\ cresult = << >>
    /\ lastcall = NoCall
    /\ issued = << >>
    /\ sw = NoSwitch
    /\ history = NoHistory
    /\ rs = NoService
    /\ links = NoLinks
    /\ \/ \E a \in LabelArgs(MaxTokens) :
             labels = [ NoLabels EXCEPT !.phase = "argument", !.arg = a ]
       \/ LET made == ConstructibleLabels(MaxTokens) IN
          \/ \E a, b, c \in made :
                labels = [ NoLabels EXCEPT !.phase = "operands", !.A = a, !.B = b, !.C = c ]
          \/ \E a \in made :
                labels = [ NoLabels EXCEPT !.phase = "label", !.A = a ]

\* Label(type_, values)
LabelConstruct ==
    /\ labels.phase = "argument"
    /\ labels' = [ labels EXCEPT !.phase = "constructed", !.made = Label(labels.arg) ]
    /\ UNCHANGED << ConnectionVars, rs, links >>

\* Label(type_, made.labelValue()) for the Label just made, and the
\* labelValue() of that
LabelPrintParse ==
    /\ labels.phase = "constructed"
    /\ labels.made.ok
    /\ LET text == labelValue(labels.made.values)
           again == Label(StrValues(text)) IN
       labels' = [ labels EXCEPT
                     !.phase = "printed",
                     !.printed = text,
                     !.reparsed = again,
                     !.reprinted = IF again.ok THEN labelValue(again.values) ELSE << >> ]
    /\ UNCHANGED << ConnectionVars, rs, links >>

\* A.randomLabel() and A.enumerateValues()
LabelRandom ==
    /\ labels.phase = "label"
    /\ \E p \in randomLabel(labels.A) :
          labels' = [ labels EXCEPT
                        !.phase = "picked",
                        !.picked = p,
                        !.enumerated = enumerateValues(labels.A) ]
    /\ UNCHANGED << ConnectionVars, rs, links >>

\* A.intersect(A), A.intersect(B), B.intersect(A), A.intersect(B).intersect(C)
\* and A.intersect(B.intersect(C))
LabelIntersect ==
    /\ labels.phase = "operands"
    /\ LET a == Values(labels.A)
           b == Values(labels.B)
           c == Values(labels.C) IN
       labels' = [ labels EXCEPT
                     !.phase = "intersected",
                     !.out = [ AA   |-> intersectOf(a, a),
                               AB   |-> intersectOf(a, b),
                               BA   |-> intersectOf(b, a),
                               AB_C |-> intersectOf(intersectOf(a, b), c),
                               A_BC |-> intersectOf(a, intersectOf(b, c)) ] ]
    /\ UNCHANGED << ConnectionVars, rs, links >>

LabelNext == LabelConstruct \/ LabelIntersect \/ LabelPrintParse \/ LabelRandom

LabelSpec == LabelInit /\ [][LabelNext]_vars

(* --------- one full lifecycle on a connection with a local child ------- *)
\* reserve, provision, release, terminate as methods of Connection
LifecycleScript ==
    << "reservation", "provision", "releaseProvision", "cancelReservation" >>

\* the states observed so far, extended by the state a step has switched to
Observe ==
    history' =
        [ parent |-> IF pstate' # pstate THEN Append(history.parent, pstate')
                     ELSE history.parent,
          local  |-> IF cstate'[1] # cstate[1] THEN Append(history.local, cstate'[1])
                     ELSE history.local ]

\* a fresh connection that has a local sub-connection
LifecycleInit ==
    /\ InitConnection
    /\ Len(conns) >= 1
    /\ conns[1] = "local"
    /\ history = [ parent |-> << pstate >>, local |-> << cstate[1] >> ]
    /\ labels = NoLabels
    /\ rs = NoService
    /\ links = NoLinks

\* number of calls of the script the requester has issued
Issued == CASE pop = NoOp                -> 0
            [] pop = "reservation"       -> 1
            [] pop = "provision"         -> 2
            [] pop = "releaseProvision"  -> 3
            [] pop = "cancelReservation" -> 4

\* the requester issues the next call of the script once the deferred of the
\* previous one has fired
LifecycleCall(sp) ==
    /\ Issued < Len(LifecycleScript)
    /\ pop = NoOp \/ presult.done
    /\ LET op == LifecycleScript[Issued + 1] IN
       /\ ConnectionCall(op)
       /\ service_parameters' = IF op = "reservation" THEN sp ELSE service_parameters
    /\ Observe
    /\ UNCHANGED << labels, rs, links >>
    /\ UNCHANGED << conns, internal_reservation_id, internal_connection_id, sw >>

\* the backend accepts the call of the local child
LifecycleBackendAccepts(id) ==
    /\ pending[1].op # NoOp
    /\ LET o == LocalConnectionDone(pending[1].op, cstate[1], id,
                                    internal_reservation_id, internal_connection_id) IN
       /\ Deliver(1, o)
       /\ internal_reservation_id' = o.rid
       /\ internal_connection_id' = o.cid
    /\ Observe
    /\ UNCHANGED << labels, rs, links >>

\* the peer accepts the call of a remote child and replies with its ID
LifecycleProxyAccepts(c) ==
    /\ c \in Children
    /\ conns[c] = "remote"
    /\ pending[c].op # NoOp
    /\ Deliver(c, SubConnectionDone(pending[c].op, c, cstate[c], ConnectionId(c)))
    /\ Observe
    /\ UNCHANGED << labels, rs, links >>
    /\ UNCHANGED << internal_reservation_id, internal_connection_id >>

LifecycleNext ==
    \/ \E sp \in ServiceParams : LifecycleCall(sp)
    \/ \E id \in Ids : LifecycleBackendAccepts(id)
    \/ \E c \in 2 .. (MaxRemotes + 1) : LifecycleProxyAccepts(c)

LifecycleSpec == LifecycleInit /\ [][LifecycleNext]_vars

(* ------------------ nsi2 RequesterService (callbacks) ------------------ *)
\* the action names of the messages a peer sends to a requester
Actions ==
    { "RESERVE_CONFIRMED", "RESERVE_FAILED", "RESERVE_COMMIT_CONFIRMED",
      "RESERVE_COMMIT_FAILED", "RESERVE_ABORT_CONFIRMED", "PROVISION_CONFIRMED",
      "RELEASE_CONFIRMED", "TERMINATE_CONFIRMED", "TERMINATE_FAILED",
      "QUERY_SUMMARY_CONFIRMED", "QUERY_SUMMARY_FAILED", "ERROR_EVENT",
      "DATA_PLANE_STATE_CHANGE", "RESERVE_TIMEOUT", "MESSAGE_DELIVERY_TIMEOUT" }

\* the methods of RequesterService that take soap_data
Handlers ==
    { "reserveConfirmed", "reserveFailed", "reserveCommitConfirmed",
      "reserveCommitFailed", "reserveAbortConfirmed", "provisionConfirmed",
      "releaseConfirmed", "terminateConfirmed", "terminateFailed",
      "querySummaryConfirmed", "querySummaryFailed", "errorEvent",
      "dataPlaneStateChange", "reserveTimeout", "messageDeliveryTimeout" }

\* soap_resource.registerDecoder(action, handler) on the registry <decoders>
registerDecoder(decoders, action, handler) == decoders \cup { << action, handler >> }

RECURSIVE registerAll(_, _)
registerAll(decoders, calls) ==
    IF calls = << >>
    THEN decoders
    ELSE registerAll(registerDecoder(decoders, Head(calls)[1], Head(calls)[2]), Tail(calls))

\* the registerDecoder calls of RequesterService.__init__, in order
Registrations ==
    << << "RESERVE_CONFIRMED", "reserveConfirmed" >>,
       << "RESERVE_FAILED", "reserveFailed" >>,
       << "RESERVE_COMMIT_CONFIRMED", "reserveCommitConfirmed" >>,
       << "RESERVE_COMMIT_FAILED", "reserveCommitFailed" >>,
       << "RESERVE_ABORT_CONFIRMED", "reserveAbortConfirmed" >>,
       << "PROVISION_CONFIRMED", "provisionConfirmed" >>,
       << "RELEASE_CONFIRMED", "releaseConfirmed" >>,
       << "TERMINATE_CONFIRMED", "terminateConfirmed" >>,
       << "QUERY_SUMMARY_CONFIRMED", "querySummaryConfirmed" >>,
       << "QUERY_SUMMARY_FAILED", "querySummaryFailed" >>,
       << "ERROR_EVENT", "errorEvent" >>,
       << "DATA_PLANE_STATE_CHANGE", "dataPlaneStateChange" >>,
       << "RESERVE_TIMEOUT", "reserveTimeout" >>,
       << "MESSAGE_DELIVERY_TIMEOUT", "messageDeliveryTimeout" >> >>

\* the decoder the codec invokes for a message of <action>: the handler
\* registered for it, "none" when there is none
Decoder(decoders, action) ==
    IF \E d \in decoders : d[1] = action
    THEN (CHOOSE d \in decoders : d[1] = action)[2]
    ELSE "none"

\* what a peer can put in a message: a payload that parses, one that does
\* not, and one that parses but whose service is not Ethernet-VLAN
Payloads == { "ok", "unparsable", "not_evts" }

\* what the requester does with the decoded result: it returns, or it
\* raises because it knows no connection of that ID
RequesterReplies == { "returns", "unknown_connection" }

\* helper.parseRequest(soap_data)
parseRequest(payload) ==
    IF payload = "unparsable" THEN "PayloadError" ELSE "parsed"

\* self.requester.<method>(header, ...)
requester(reply) ==
    IF reply = "unknown_connection" THEN "ConnectionNonExistentError" ELSE "returned"

\* the requester method a handler hands the decoded result to
RequesterMethod(handler) ==
    IF handler = "querySummaryFailed" THEN "queryFailed" ELSE handler

\* the body of a handler: parse, (reserveConfirmed: check the service type),
\* call the requester, return helper.createGenericAcknowledgement(header).
\* There is no try/except in any of them: what a step raises leaves the
\* handler.  The result names the requester method called ("none" when the
\* handler did not get that far) and how the handler ended.
Handle(handler, payload, reply) ==
    IF handler = "messageDeliveryTimeout"
    THEN [ called |-> "none", outcome |-> "NotImplementedError" ]
    ELSE IF parseRequest(payload) # "parsed"
    THEN [ called |-> "none", outcome |-> parseRequest(payload) ]
    ELSE IF handler = "reserveConfirmed" /\ payload = "not_evts"
    THEN [ called |-> "none", outcome |-> "ValueError" ]
    ELSE IF requester(reply) # "returned"
    THEN [ called |-> RequesterMethod(handler), outcome |-> requester(reply) ]
    ELSE [ called |-> RequesterMethod(handler), outcome |-> "acknowledgement" ]

\* the state after RequesterService(soap_resource, requester)
RSInit ==
    /\ InitConnection
    /\ history = NoHistory
    /\ labels = NoLabels
    /\ links = NoLinks
    /\ rs = [ decoders |-> registerAll({ }, Registrations), messages |-> 0,
              acknowledged |-> 0, last |-> NoMessage ]

\* a peer delivers one message: the codec looks the decoder up and runs it
SoapDeliver(action, payload, reply) ==
    /\ rs.messages < MaxMessages
    /\ LET handler == Decoder(rs.decoders, action)
           h == IF handler = "none"
                THEN [ called |-> "none", outcome |-> "no decoder" ]
                ELSE Handle(handler, payload, reply)
       IN rs' = [ rs EXCEPT
                    !.messages = @ + 1,
                    !.acknowledged = IF h.outcome = "acknowledgement" THEN @ + 1 ELSE @,
                    !.last = [ action |-> action, payload |-> payload,
                               requester |-> reply, handler |-> handler,
                               called |-> h.called, outcome |-> h.outcome ] ]
    /\ UNCHANGED << ConnectionVars, labels, links >>

RSNext == \E a \in Actions, p \in Payloads, r \in RequesterReplies : SoapDeliver(a, p, r)

RSSpec == RSInit /\ [][RSNext]_vars

(* ------------------------ nsa.STP, Link and Path ----------------------- *)
Networks == { "n1", "n2" }
Ports == { "p1", "p2" }

\* a labels argument: None, or a list of labels (a label stands for itself)
NoneLabels == [ none |-> TRUE, list |-> << >> ]
LabelLists == { NoneLabels, [ none |-> FALSE, list |-> << >> ],
                [ none |-> FALSE, list |-> << "vlan" >> ] }

\* STP(*args): __init__(self, network, port, labels=None) takes at most three
\* positional arguments; a fourth one is a TypeError of the call.  The
\* labels kept are <labels or []>.
STP(args) ==
    IF Len(args) < 2 \/ Len(args) > 3
    THEN [ ok |-> FALSE, stp |-> NoSTP, err |-> "TypeError" ]
    ELSE [ ok |-> TRUE,
           stp |-> [ network |-> args[1], port |-> args[2],
                     labels |-> IF Len(args) = 3 THEN args[3].list ELSE << >> ],
           err |-> "-" ]

\* the Link objects the constructor accepts: labels both None or both lists
Links ==
    { l \in [ network : Networks, src_port : Ports, dst_port : Ports,
              src_labels : LabelLists, dst_labels : LabelLists ] :
        l.src_labels.none = l.dst_labels.none }

sourceSTP(link) == STP(<< link.network, link.src_port, NoneLabels, link.src_labels >>)

destSTP(link) == STP(<< link.network, link.dst_port, NoneLabels, link.dst_labels >>)

\* Path.sourceEndpoint: network_links[0].sourceSTP()
sourceEndpoint(path) == sourceSTP(path[1])

\* Path.destEndpoint: network_links[-1].destSTP()
destEndpoint(path) == destSTP(path[Len(path)])

\* Path(network_links) for every list of one to MaxLinks links
PathInit ==
    /\ InitConnection
    /\ conns = << "local" >>
    /\ history = NoHistory
    /\ labels = NoLabels
    /\ rs = NoService
    /\ \E n \in 1 .. MaxLinks : \E p \in [ 1 .. n -> Links ] :
           links = [ NoLinks EXCEPT !.path = p ]

LinkCall(call, i, out) ==
    /\ links.call = "none"
    /\ links' = [ links EXCEPT !.call = call, !.index = i, !.out = out ]
    /\ UNCHANGED << ConnectionVars, labels, rs >>

LinkSourceSTP(i) == LinkCall("sourceSTP", i, sourceSTP(links.path[i]))

LinkDestSTP(i) == LinkCall("destSTP", i, destSTP(links.path[i]))

PathSourceEndpoint == LinkCall("sourceEndpoint", 0, sourceEndpoint(links.path))

PathDestEndpoint == LinkCall("destEndpoint", 0, destEndpoint(links.path))

PathNext ==
    \/ \E i \in 1 .. Len(links.path) : LinkSourceSTP(i)
    \/ \E i \in 1 .. Len(links.path) : LinkDestSTP(i)
    \/ PathSourceEndpoint
    \/ PathDestEndpoint

PathSpec == PathInit /\ [][PathNext]_vars

(* =============================== claims ================================ *)
\* the edges of the documented transition table, written out pair by pair
TableEdges ==
    { << "Initial", "Reserving" >>,
      << "Reserving", "Reserved" >>, << "Reserving", "Terminated" >>,
      << "Reserved", "Auto-Provision" >>, << "Reserved", "Provisioning" >>,
      << "Reserved", "Terminateing" >>,
      << "Auto-Provision", "Provisioning" >>, << "Auto-Provision", "Terminated" >>,
      << "Provisioning", "Provisioned" >>, << "Provisioning", "Terminated" >>,
      << "Provisioned", "Releasing" >>, << "Provisioned", "Terminateing" >>,
      << "Releasing", "Reserved" >>, << "Releasing", "Terminated" >>,
      << "Terminateing", "Terminated" >> }

\* C1: switchState(new) on an object in state cur leaves the object in new
\* without an error exactly when (cur, new) is an edge of the documented
\* table; for every other pair it raises ConnectionStateTransitionError and
\* the state is still cur.
C1_SwitchStateFollowsTable ==
    sw.count > 0 =>
        IF << sw.from, sw.to >> \in TableEdges
        THEN pstate = sw.to /\ ~sw.raised
        ELSE pstate = sw.from /\ sw.raised

\* an illegal switch has been tried on an object that an earlier call had
\* moved: it raised and the object is still in Reserving
C1_Witness ==
    /\ sw.count >= 2
    /\ sw.from = RESERVING
    /\ sw.to = PROVISIONED
    /\ sw.raised
    /\ pstate = RESERVING

\* the states the documented table reaches from Initial
RECURSIVE TableClosure(_)
TableClosure(S) ==
    LET T == S \cup { e[2] : e \in { d \in TableEdges : d[1] \in S } } IN
    IF T = S THEN S ELSE TableClosure(T)

\* a childless connection runs its callback inside the call, so that step
\* shows the two switches of the method at once
C2_TwoEdges(from, to) ==
    \E mid \in States : << from, mid >> \in TableEdges /\ << mid, to >> \in TableEdges

C2_EdgeStep ==
    /\ pstate' # pstate =>
            \/ << pstate, pstate' >> \in TableEdges
            \/ Len(conns) = 0 /\ C2_TwoEdges(pstate, pstate')
    /\ \A c \in Children : cstate'[c] # cstate[c] => << cstate[c], cstate'[c] >> \in TableEdges

C2_StartInitial == pstate = "Initial" /\ \A c \in Children : cstate[c] = "Initial"

C2_Reachable ==
    /\ pstate \in TableClosure({ "Initial" })
    /\ \A c \in Children : cstate[c] \in TableClosure({ "Initial" })

\* C2: the connection and every local and remote sub-connection start in
\* Initial, every change of their state under any interleaving of parent calls
\* and downstream completions is an edge of the documented table, and so every
\* state observed is reachable from Initial through the table.
C2_StateLegality == C2_StartInitial /\ [][C2_EdgeStep]_vars /\ []C2_Reachable

\* a connection with a local and a remote child has gone round the whole
\* cycle: reserved, provisioned and released back to Reserved
C2_Witness ==
    /\ Len(conns) >= 2
    /\ conns[1] = "local"
    /\ pop = "releaseProvision"
    /\ presult.ok
    /\ pstate = RESERVED
    /\ \A c \in Children : cstate[c] = RESERVED

C3_ParentCalled ==
    \/ \E sp \in ServiceParams : ConnectionReservation(sp)
    \/ ConnectionCancelReservation
    \/ ConnectionProvision
    \/ ConnectionReleaseProvision

C3_Step ==
    /\ pstate = "Terminated" => pstate' = "Terminated"
    /\ \A c \in Children : cstate[c] = "Terminated" => cstate'[c] = "Terminated"
    /\ (pstate = "Terminated" /\ C3_ParentCalled) =>
            /\ lastcall'.target = 0
            /\ lastcall'.raised
            /\ UNCHANGED << cstate, pending, dlop, pop, presult >>
    /\ \A c \in Children : \A op \in Ops :
            (cstate[c] = "Terminated" /\ SubCall(c, op)) =>
                /\ lastcall' = [ target |-> c, op |-> op, raised |-> TRUE ]
                /\ UNCHANGED << pstate, pending, cresult >>

\* C3: once the connection or a sub-connection is in Terminated it stays
\* there in every later step, whether a call or a completion callback; every
\* reservation, cancelReservation, provision or releaseProvision call on it
\* raises the transition error and launches nothing.
C3_TerminalAbsorption == [][C3_Step]_vars

\* a provision call has been refused while the connection and its child were
\* Terminated after a failed operation
C3_Witness ==
    /\ pstate = TERMINATED
    /\ presult.done /\ ~presult.ok
    /\ Len(conns) >= 1
    /\ cstate[1] = TERMINATED
    /\ pending[1].op = NoOp
    /\ lastcall.op = "provision"
    /\ lastcall.raised

(* ---- the aggregation policy: what the children reported to the parent ---- *)
AllReported == \A c \in Children : cresult[c].done
NumSucceeded == Cardinality({ c \in Children : cresult[c].done /\ cresult[c].ok })
NumFailed == Cardinality({ c \in Children : cresult[c].done /\ ~cresult[c].ok })
EveryChildSucceeded == AllReported /\ NumFailed = 0
EveryChildFailed == AllReported /\ NumSucceeded = 0
SomeButNotAllSucceeded == AllReported /\ NumSucceeded > 0 /\ NumFailed > 0

\* the parent's call has failed with an error of class cls and message text
FailedWith(cls, text) ==
    /\ presult.done
    /\ ~presult.ok
    /\ presult.cls = cls
    /\ presult.text = text

\* the parent's call has returned the connection
ReturnedSelf == presult.done /\ presult.ok /\ presult.text = "self"

\* C4: for a reservation accepted on a connection with at least one child,
\* once every child has reported: all succeeded - the parent is Reserved and
\* the call returns the connection; some succeeded and some failed - the
\* parent is Terminated and the call fails with a ReserveError stating a
\* partial failure that may require manual cleanup and holding the message of
\* every failed child; all failed - the parent is Terminated and the call
\* fails with a ReserveError stating that reservation failed for all.
C4_ReservationAggregate ==
    (pop = "reservation" /\ Len(conns) >= 1 /\ AllReported) =>
        /\ EveryChildSucceeded => pstate = "Reserved" /\ ReturnedSelf
        /\ SomeButNotAllSucceeded =>
              /\ pstate = "Terminated"
              /\ FailedWith("ReserveError",
                            "Partial failure in reservation, may require manual cleanup")
              /\ \A c \in Children :
                    ~cresult[c].ok =>
                        \E i \in DOMAIN presult.msgs : presult.msgs[i] = cresult[c].text
        /\ EveryChildFailed =>
              /\ pstate = "Terminated"
              /\ FailedWith("ReserveError",
                            "Reservation failed for all local/sub connections")

\* local reserved, the two remotes failed with different messages: partial
\* failure carrying both messages
C4_Witness ==
    /\ pop = "reservation"
    /\ Len(conns) = 3
    /\ AllReported
    /\ cresult[1].ok
    /\ ~cresult[2].ok /\ cresult[2].text = "e1"
    /\ ~cresult[3].ok /\ cresult[3].text = "e2"
    /\ pstate = TERMINATED
    /\ presult.msgs = << "e1", "e2" >>

\* C5: for a provision accepted on a connection with at least one child, once
\* every child has reported, the parent is Provisioned and the call succeeds
\* if and only if every child succeeded; some but not all succeeded - parent
\* Terminated, ProvisionError "partially failed"; all failed - parent
\* Terminated, ProvisionError "failed for all".
C5_ProvisionAggregate ==
    (pop = "provision" /\ Len(conns) >= 1 /\ AllReported) =>
        /\ (pstate = "Provisioned" /\ ReturnedSelf) <=> EveryChildSucceeded
        /\ SomeButNotAllSucceeded =>
              /\ pstate = "Terminated"
              /\ FailedWith("ProvisionError",
                            "Provision partially failed (may require manual cleanup)")
        /\ EveryChildFailed =>
              /\ pstate = "Terminated"
              /\ FailedWith("ProvisionError",
                            "Provision failed for all local/sub connections")

\* a provision in which the local child succeeded and the remote one failed
C5_Witness ==
    /\ pop = "provision"
    /\ Len(conns) = 2
    /\ conns[1] = "local"
    /\ AllReported
    /\ cresult[1].ok /\ cstate[1] = PROVISIONED
    /\ ~cresult[2].ok
    /\ pstate = TERMINATED
    /\ presult.cls = "ProvisionError"

\* C6: for a releaseProvision accepted on a connection with at least one
\* child, once every child has reported, the parent is back in Reserved and
\* the call succeeds if and only if every child succeeded; some but not all
\* succeeded - parent Terminated, ReleaseError "partially failed"; all failed
\* - parent Terminated, ReleaseError "failed for all".
C6_ReleaseAggregate ==
    (pop = "releaseProvision" /\ Len(conns) >= 1 /\ AllReported) =>
        /\ (pstate = "Reserved" /\ ReturnedSelf) <=> EveryChildSucceeded
        /\ SomeButNotAllSucceeded =>
              /\ pstate = "Terminated"
              /\ FailedWith("ReleaseError",
                            "Release partially failed (may require manual cleanup)")
        /\ EveryChildFailed =>
              /\ pstate = "Terminated"
              /\ FailedWith("ReleaseError",
                            "Release failed for all local/sub connection")

\* a release that every one of two children refused
C6_Witness ==
    /\ pop = "releaseProvision"
    /\ Len(conns) = 2
    /\ AllReported
    /\ ~cresult[1].ok
    /\ ~cresult[2].ok
    /\ pstate = TERMINATED
    /\ presult.cls = "ReleaseError"

\* C7: for a cancelReservation accepted on a connection with at least one
\* child, once every child has reported, the parent is Terminated whatever
\* the children reported; the call succeeds only when every child succeeded,
\* fails with CancelReservationError "partially failed" when some but not all
\* failed, and with CancelReservationError "failed for all" when all failed.
C7_CancelAggregate ==
    (pop = "cancelReservation" /\ Len(conns) >= 1 /\ AllReported) =>
        /\ pstate = "Terminated"
        /\ presult.done
        /\ presult.ok <=> EveryChildSucceeded
        /\ EveryChildSucceeded => ReturnedSelf
        /\ SomeButNotAllSucceeded =>
              FailedWith("CancelReservationError",
                         "Cancel partially failed (may require manual cleanup)")
        /\ EveryChildFailed =>
              FailedWith("CancelReservationError",
                         "Cancel failed for all local/sub connections")

\* a cancel of a provisioned connection in which the remote child failed
C7_Witness ==
    /\ pop = "cancelReservation"
    /\ Len(conns) = 2
    /\ AllReported
    /\ cresult[1].ok
    /\ ~cresult[2].ok
    /\ internal_connection_id # None
    /\ pstate = TERMINATED
    /\ presult.cls = "CancelReservationError"

\* the in-flight state of each parent operation, as documented
DocumentedInFlight(op) ==
    CASE op = "reservation"       -> "Reserving"
      [] op = "cancelReservation" -> "Terminateing"
      [] op = "provision"         -> "Provisioning"
      [] op = "releaseProvision"  -> "Releasing"

\* C8: while a child of an accepted parent operation has not yet reported,
\* the parent is in the in-flight state of that operation and the result of
\* the call has not been delivered, whatever the other children reported.
C8_Barrier ==
    (pop # NoOp /\ \E c \in Children : ~cresult[c].done) =>
        /\ pstate = DocumentedInFlight(pop)
        /\ ~presult.done

\* one child of a provision has failed and is Terminated, another has
\* succeeded, the third is still outstanding: the parent is still Provisioning
C8_Witness ==
    /\ pop = "provision"
    /\ Len(conns) = 3
    /\ cresult[1].done /\ ~cresult[1].ok /\ cstate[1] = TERMINATED
    /\ cresult[2].done /\ cresult[2].ok
    /\ pending[3].op = "provision"
    /\ pstate = PROVISIONING

\* the policy table: parent state and class of the result as a function of
\* the operation and of how many children succeeded and failed
PolicyTable(op, succeeded, failed) ==
    IF failed = 0
    THEN << CASE op = "reservation"       -> "Reserved"
              [] op = "cancelReservation" -> "Terminated"
              [] op = "provision"         -> "Provisioned"
              [] op = "releaseProvision"  -> "Reserved",
            "success" >>
    ELSE IF succeeded > 0 THEN << "Terminated", "partial" >>
    ELSE << "Terminated", "total" >>

ResultClass ==
    IF presult.ok THEN "success"
    ELSE IF presult.text \in
            { "Partial failure in reservation, may require manual cleanup",
              "Cancel partially failed (may require manual cleanup)",
              "Provision partially failed (may require manual cleanup)",
              "Release partially failed (may require manual cleanup)" }
    THEN "partial"
    ELSE IF presult.text \in
            { "Reservation failed for all local/sub connections",
              "Cancel failed for all local/sub connections",
              "Provision failed for all local/sub connections",
              "Release failed for all local/sub connection" }
    THEN "total"
    ELSE "other"

\* C9: once every child of a parent operation has reported, the parent's
\* state and the class of the result are given by the policy table from the
\* operation and the numbers of children that succeeded and failed alone, in
\* whatever order the completions arrived.
C9_AggregationDeterminism ==
    (pop # NoOp /\ Len(conns) >= 1 /\ AllReported) =>
        /\ presult.done
        /\ << pstate, ResultClass >> = PolicyTable(pop, NumSucceeded, NumFailed)

\* the completions of a release arrived in the reverse of the order of
\* connections(), the last child failing first
C9_Witness ==
    /\ pop = "releaseProvision"
    /\ Len(conns) = 3
    /\ order = << 3, 2, 1 >>
    /\ ~cresult[3].ok
    /\ cresult[2].ok
    /\ cresult[1].ok
    /\ pstate = TERMINATED

\* the state each operation ends in when it succeeds, as documented
DocumentedResult(op) ==
    CASE op = "reservation"       -> "Reserved"
      [] op = "cancelReservation" -> "Terminated"
      [] op = "provision"         -> "Provisioned"
      [] op = "releaseProvision"  -> "Reserved"

\* the downstream call of child c succeeds in this step: the backend's
\* deferred fires with a value, or the proxy's does, carrying for provision
\* and release the connection ID that was issued
C10_CallSucceeds(c) ==
    \/ \E id \in Ids : BackendSucceeds(c, id)
    \/ \E conn_id \in ConnIds :
          /\ ProxySucceeds(c, conn_id)
          /\ pending[c].op \in { "provision", "releaseProvision" } => conn_id = ConnectionId(c)

C10_Step ==
    \A c \in Children :
        /\ \A op \in Ops :
              (SubCall(c, op) /\ ~lastcall'.raised) => pending'[c].op = op
        /\ (pending[c].op = NoOp /\ pending'[c].op # NoOp) =>
              cstate'[c] = DocumentedInFlight(pending'[c].op)
        /\ C10_CallSucceeds(c) =>
              /\ cstate[c] = DocumentedInFlight(pending[c].op)
              /\ cstate'[c] = DocumentedResult(pending[c].op)
              /\ cresult'[c].done /\ cresult'[c].ok /\ cresult'[c].text = "self"

C11_FailureTerminates ==
    \A c \in Children :
        (cresult[c].done /\ ~cresult[c].ok) => cstate[c] = "Terminated"

\* the operation's in-flight state is not listed for the state cur
Refused(cur, op) == << cur, DocumentedInFlight(op) >> \notin TableEdges

C12_Step ==
    \A c \in Children : \A op \in Ops :
        /\ (SubCall(c, op) /\ Refused(cstate[c], op)) =>
              /\ lastcall' = [ target |-> c, op |-> op, raised |-> TRUE ]
              /\ cstate'[c] = cstate[c]
              /\ pending'[c] = pending[c]
              /\ cresult'[c] = cresult[c]
              /\ UNCHANGED << internal_reservation_id, internal_connection_id >>
        /\ (ConnectionCall(op) /\ ~Refused(pstate, op) /\ Refused(cstate[c], op)) =>
              /\ lastcall'.raised
              /\ cstate'[c] = cstate[c]
              /\ pending'[c] = pending[c]

\* C12: an operation invoked on a local or remote sub-connection whose state
\* does not allow the operation's in-flight state raises the transition error
\* synchronously, leaves the sub-connection's state and IDs as they were and
\* issues no call on the backend or proxy.
C12_IllegalSubCallRejected == [][C12_Step]_vars

\* a provisioned local sub-connection holding both IDs has refused a
\* reservation
C12_Witness ==
    /\ Len(conns) = 1
    /\ conns[1] = "local"
    /\ cstate[1] = PROVISIONED
    /\ internal_reservation_id # None
    /\ internal_connection_id # None
    /\ pending[1].op = NoOp
    /\ lastcall = [ target |-> 1, op |-> "reservation", raised |-> TRUE ]

InFlightStates == { "Reserving", "Provisioning", "Releasing", "Terminateing" }

C13_Step ==
    /\ \A c \in Children :
          /\ (pending[c].op # NoOp /\ pending'[c] # pending[c]) => pending'[c].op = NoOp
          /\ pending[c].op # NoOp => cstate[c] \in InFlightStates
          /\ \A op \in Ops :
                (cstate[c] \in InFlightStates /\ SubCall(c, op)) =>
                    /\ lastcall' = [ target |-> c, op |-> op, raised |-> TRUE ]
                    /\ UNCHANGED << cstate, pending, cresult >>
    /\ (dlop # NoOp /\ dlop' # dlop) => dlop' = NoOp
    /\ dlop # NoOp => pstate \in InFlightStates
    /\ \A op \in Ops :
          (pstate \in InFlightStates /\ ConnectionCall(op)) =>
              /\ lastcall' = [ target |-> 0, op |-> op, raised |-> TRUE ]
              /\ UNCHANGED << pstate, cstate, pending, dlop, pop, presult >>

\* C13: a sub-connection or aggregating connection whose operation is in
\* flight (Reserving, Provisioning, Releasing or Terminating) rejects every
\* further call with the transition error, so an outstanding downstream call
\* is never replaced or joined by another: it can only complete.
C13_OneOperationOutstanding == [][C13_Step]_vars

\* a cancelReservation has been refused by a remote sub-connection whose
\* provision is still outstanding
C13_Witness ==
    /\ Len(conns) = 1
    /\ conns[1] = "remote"
    /\ cstate[1] = PROVISIONING
    /\ pending[1].op = "provision"
    /\ lastcall = [ target |-> 1, op |-> "cancelReservation", raised |-> TRUE ]

C14_Step ==
    \A op \in Ops :
        (ConnectionCall(op) /\ Refused(pstate, op)) =>
            /\ lastcall' = [ target |-> 0, op |-> op, raised |-> TRUE ]
            /\ UNCHANGED << pstate, cstate, pending, dlop, dlresults, pop, presult, cresult >>

\* C14: a parent operation invoked on an aggregating connection whose state
\* does not allow the operation's in-flight state raises the transition error
\* synchronously; the parent's state is unchanged, no operation is launched
\* on any child and every child's state is unchanged.
C14_IllegalParentCallRejected == [][C14_Step]_vars

\* provision has been refused by a fresh connection with three children
C14_Witness ==
    /\ Len(conns) = 3
    /\ pstate = INITIAL
    /\ \A c \in Children : cstate[c] = INITIAL /\ pending[c].op = NoOp
    /\ lastcall = [ target |-> 0, op |-> "provision", raised |-> TRUE ]

\* the documented sequence of states of one full lifecycle
LifecycleStates ==
    << "Initial", "Reserving", "Reserved", "Provisioning", "Provisioned",
       "Releasing", "Reserved", "Terminateing", "Terminated" >>

IsPrefix(s, t) == Len(s) <= Len(t) /\ \A i \in 1 .. Len(s) : s[i] = t[i]

\* C15: on a fresh connection with a local sub-connection whose backend (and
\* peers) accept every call, reserve, provision, release and terminate, each
\* issued after the previous one completed, are all accepted, and the
\* connection and its local sub-connection go through exactly Initial,
\* Reserving, Reserved, Provisioning, Provisioned, Releasing, Reserved,
\* Terminating, Terminated in that order.
C15_FullLifecycle ==
    /\ ~lastcall.raised
    /\ IsPrefix(history.parent, LifecycleStates)
    /\ IsPrefix(history.local, LifecycleStates)
    /\ (pop # NoOp /\ presult.done) => presult.ok
    /\ (pop = "cancelReservation" /\ presult.done) =>
          /\ history.parent = LifecycleStates
          /\ history.local = LifecycleStates

\* the terminate call of the script has completed on a connection with a
\* local and two remote children
C15_Witness ==
    /\ Len(conns) = 3
    /\ lastcall = [ target |-> 0, op |-> "cancelReservation", raised |-> FALSE ]
    /\ presult.done
    /\ pstate = TERMINATED
    /\ cstate[1] = TERMINATED
    /\ Len(history.parent) = 9
    /\ Len(history.local) = 9

\* every range is ascending and a gap separates each range from the next
Canonical(nv) ==
    /\ \A i \in 1 .. Len(nv) : nv[i][1] <= nv[i][2]
    /\ \A i \in 1 .. (Len(nv) - 1) : nv[i][2] + 1 < nv[i + 1][1]

OutFields == { "AA", "AB", "BA", "AB_C", "A_BC" }

\* C16: every Label the constructor produces, from a comma-separated string
\* or a list of tokens in any order with overlapping or adjacent ranges, and
\* every Label intersect returns, holds ranges with lo <= hi and
\* r_i.hi + 1 < r_(i+1).lo.
C16_LabelCanonical ==
    /\ (labels.phase = "constructed" /\ labels.made.ok) => Canonical(labels.made.values)
    /\ labels.phase = "intersected" =>
          \A f \in OutFields : labels.out[f].ok => Canonical(labels.out[f].values)

\* the string "2-3,0-2", unordered and overlapping, has become the range 0-3
C16_Witness ==
    /\ labels.phase = "constructed"
    /\ labels.arg = StrValues(<< "2", "-", "3", ",", "0", "-", "2" >>)
    /\ labels.made = Values(<< << 0, 3 >> >>)

\* the integers a list of ranges stands for
Members(nv) == UNION { nv[i][1] .. nv[i][2] : i \in 1 .. Len(nv) }

\* C17: for labels A and B of one type over non-negative integers that share
\* at least one value, A.intersect(B) returns a label that holds exactly the
\* integers that are in A and in B, also when one label runs out of ranges
\* before the other.
C17_IntersectSound ==
    (labels.phase = "intersected" /\ Members(labels.A) \cap Members(labels.B) # { }) =>
        /\ labels.out.AB.ok
        /\ Members(labels.out.AB.values) = Members(labels.A) \cap Members(labels.B)

\* 0,2-3 has been intersected with 0-2, whose only range covers values of
\* both ranges of the first label
C17_Witness ==
    /\ labels.phase = "intersected"
    /\ labels.A = << << 0, 0 >>, << 2, 3 >> >>
    /\ labels.B = << << 0, 2 >> >>
    /\ labels.out.AB = Values(<< << 0, 0 >>, << 2, 2 >> >>)

\* both calls returned equal labels, or both failed with the empty-label-set
\* error
SameOutcome(x, y) ==
    \/ x.ok /\ y.ok /\ LabelEq(x.values, y.values)
    \/ ~x.ok /\ ~y.ok /\ x.err = "EmptyLabelSet" /\ y.err = "EmptyLabelSet"

IntersectLaws ==
    /\ labels.out.AA.ok /\ LabelEq(labels.out.AA.values, labels.A)
    /\ SameOutcome(labels.out.AB, labels.out.BA)
    /\ SameOutcome(labels.out.AB_C, labels.out.A_BC)

\* C18: A.intersect(A) == A; A.intersect(B) == B.intersect(A), both equal or
\* both failing with the empty-label-set error; and likewise
\* A.intersect(B).intersect(C) and A.intersect(B.intersect(C)).
C18_IntersectLaws == labels.phase = "intersected" => IntersectLaws

\* the laws for operands that hold at least one range each
C18_LawsOfNonEmptyLabels ==
    (/\ labels.phase = "intersected"
     /\ Len(labels.A) > 0 /\ Len(labels.B) > 0 /\ Len(labels.C) > 0) => IntersectLaws

\* C19: A.intersect(B) fails with the empty-label-set error exactly when A
\* and B have no value in common, and never returns a label whose list of
\* ranges is empty.
C19_EmptyIntersection ==
    labels.phase = "intersected" =>
        /\ (labels.out.AB = Raised("EmptyLabelSet"))
              <=> (Members(labels.A) \cap Members(labels.B) = { })
        /\ labels.out.AB.ok => Len(labels.out.AB.values) > 0

\* the same for operands that hold at least one range each
C19_OfNonEmptyLabels ==
    (labels.phase = "intersected" /\ Len(labels.A) > 0 /\ Len(labels.B) > 0) =>
        /\ (labels.out.AB = Raised("EmptyLabelSet"))
              <=> (Members(labels.A) \cap Members(labels.B) = { })
        /\ labels.out.AB.ok => Len(labels.out.AB.values) > 0

\* C20: the constructor never yields a Label with zero ranges: given values
\* that normalize to no range at all, an empty list of tokens or an empty
\* string, it fails.
C20_NoEmptyLabel ==
    labels.phase = "constructed" => ~(labels.made.ok /\ Len(labels.made.values) = 0)

\* the text is one or more decimal digits
AllDigits(t) ==
    /\ Len(t) > 0
    /\ \A i \in 1 .. Len(t) : t[i] \in { "0", "1", "2", "3", "4", "5", "6", "7", "8", "9" }

\* a singleton n, or a range lo-hi with lo <= hi
WellFormedToken(t) ==
    \/ AllDigits(t)
    \/ \E k \in 1 .. Len(t) :
          /\ t[k] = "-"
          /\ AllDigits(SubSeq(t, 1, k - 1))
          /\ AllDigits(SubSeq(t, k + 1, Len(t)))
          /\ IntOf(SubSeq(t, 1, k - 1)) <= IntOf(SubSeq(t, k + 1, Len(t)))

\* the tokens of the argument the constructor was given
ArgTokens == IF labels.arg.kind = "str" THEN split(labels.arg.text, ",")
             ELSE labels.arg.tokens

\* C21: when any token of the values given to the constructor is a range
\* lo-hi with lo > hi, or is neither an integer nor an integer range, the
\* constructor fails with PayloadError and produces no Label; values made only
\* of singletons and ranges with lo <= hi are accepted.
C21_BadTokensRejected ==
    (labels.phase = "constructed" /\ labels.arg.kind # "None") =>
        /\ (\E i \in 1 .. Len(ArgTokens) : ~WellFormedToken(ArgTokens[i]))
              => labels.made = Raised("PayloadError")
        /\ (Len(ArgTokens) > 0 /\ \A i \in 1 .. Len(ArgTokens) : WellFormedToken(ArgTokens[i]))
              => labels.made.ok /\ Len(labels.made.values) > 0

\* the string "1,3-2", whose second token descends, has been refused
C21_Witness ==
    /\ labels.phase = "constructed"
    /\ labels.arg = StrValues(<< "1", ",", "3", "-", "2" >>)
    /\ labels.made = Raised("PayloadError")

\* C22: for every accepted textual form s, Label(t, Label(t, s).labelValue())
\* equals Label(t, s), and the canonical text of a label is a fixed point of
\* parsing and printing again.
C22_TextRoundTrip ==
    (labels.phase = "printed" /\ labels.arg.kind = "str") =>
        /\ labels.reparsed.ok
        /\ LabelEq(labels.reparsed.values, labels.made.values)
        /\ labels.reprinted = labels.printed

\* "2-3,0-1" has been parsed, printed as "0-3" and parsed again
C22_Witness ==
    /\ labels.phase = "printed"
    /\ labels.arg = StrValues(<< "2", "-", "3", ",", "0", "-", "1" >>)
    /\ labels.printed = << "0", "-", "3" >>
    /\ labels.reparsed = Values(<< << 0, 3 >> >>)

\* the integers in a sequence
Elements(seq) == { seq[i] : i \in 1 .. Len(seq) }

\* C23: randomLabel() returns a value v inside the range it picked,
\* lo <= v <= hi, hence one of the values enumerateValues() lists.
C23_RandomLabelInRange ==
    (labels.phase = "picked" /\ labels.picked.ok) =>
        /\ labels.picked.range[1] <= labels.picked.value
        /\ labels.picked.value <= labels.picked.range[2]
        /\ labels.picked.value \in Elements(labels.enumerated)

\* the entry point the callback surface names for each action
EntryPoint(action) ==
    CASE action = "RESERVE_CONFIRMED" -> "reserveConfirmed"
      [] action = "RESERVE_FAILED" -> "reserveFailed"
      [] action = "RESERVE_COMMIT_CONFIRMED" -> "reserveCommitConfirmed"
      [] action = "RESERVE_COMMIT_FAILED" -> "reserveCommitFailed"
      [] action = "RESERVE_ABORT_CONFIRMED" -> "reserveAbortConfirmed"
      [] action = "PROVISION_CONFIRMED" -> "provisionConfirmed"
      [] action = "RELEASE_CONFIRMED" -> "releaseConfirmed"
      [] action = "TERMINATE_CONFIRMED" -> "terminateConfirmed"
      [] action = "TERMINATE_FAILED" -> "terminateFailed"
      [] action = "QUERY_SUMMARY_CONFIRMED" -> "querySummaryConfirmed"
      [] action = "QUERY_SUMMARY_FAILED" -> "querySummaryFailed"
      [] action = "ERROR_EVENT" -> "errorEvent"
      [] action = "DATA_PLANE_STATE_CHANGE" -> "dataPlaneStateChange"
      [] action = "RESERVE_TIMEOUT" -> "reserveTimeout"
      [] action = "MESSAGE_DELIVERY_TIMEOUT" -> "messageDeliveryTimeout"
      [] OTHER -> "none"

\* C24: every requester callback entry point is in the codec's registry once
\* the RequesterService is constructed, so a peer's message for any of the
\* fifteen actions, a negative terminate response included, runs the handler
\* of that action.
C24_EveryEntryPointRegistered ==
    /\ rs.decoders # { } => \A a \in Actions : << a, EntryPoint(a) >> \in rs.decoders
    /\ rs.messages > 0 => rs.last.handler = EntryPoint(rs.last.action)

\* C25: a callback whose payload does not parse, or whose decoded result the
\* requester rejects (unknown connection ID), still ends with the generic
\* acknowledgement: the error does not leave the entry point.
C25_ErrorStillAcknowledged ==
    ( /\ rs.last.handler \in Handlers
      /\ rs.last.payload = "unparsable" \/ rs.last.requester = "unknown_connection" )
        => rs.last.outcome = "acknowledgement"

\* C26: a reserveTimeout and a messageDeliveryTimeout notification that
\* parses, to a requester that accepts it, is passed to the requester method
\* of the same name and answered with the generic acknowledgement.
C26_TimeoutsHandled ==
    ( /\ rs.last.handler \in { "reserveTimeout", "messageDeliveryTimeout" }
      /\ rs.last.payload = "ok"
      /\ rs.last.requester = "returns" )
        => /\ rs.last.called = rs.last.handler
           /\ rs.last.outcome = "acknowledgement"

\* C27: Link.sourceSTP() is STP(network, src_port, src_labels) and
\* Link.destSTP() is STP(network, dst_port, dst_labels), for a link with and
\* without labels; Path.sourceEndpoint() is the source STP of the first link
\* and Path.destEndpoint() the destination STP of the last link.
C27_LinkEndpoints ==
    LET first == links.path[1]
        last == links.path[Len(links.path)]
        l == links.path[links.index]
    IN /\ links.call = "sourceSTP"
            => links.out = STP(<< l.network, l.src_port, l.src_labels >>)
       /\ links.call = "destSTP"
            => links.out = STP(<< l.network, l.dst_port, l.dst_labels >>)
       /\ links.call = "sourceEndpoint"
            => links.out = STP(<< first.network, first.src_port, first.src_labels >>)
       /\ links.call = "destEndpoint"
            => links.out = STP(<< last.network, last.dst_port, last.dst_labels >>)

C28_Step ==
    /\ \A op \in Ops :
           (ConnectionCall(op) /\ ~lastcall'.raised) =>
               /\ Len(issued') = Len(conns)
               /\ \A c \in Children :
                      /\ Cardinality({ i \in 1 .. Len(issued') : issued'[i].child = c }) = 1
                      /\ \E i \in 1 .. Len(issued') :
                             issued'[i] =
                                 [ on |-> IF conns[c] = "local" THEN "backend" ELSE "proxy",
                                   child |-> c, op |-> op ]
    /\ (\E c \in Children : pending[c].op # NoOp /\ pending'[c].op = NoOp) => issued' = << >>
    /\ conns = << "local" >> => \A i \in 1 .. Len(issued') : issued'[i].on # "proxy"

\* C28: an accepted parent operation makes the downstream call exactly once
\* for every child, on the backend for the local child and on the proxy for
\* a remote child; a step in which a downstream call completes, with a value
\* or with a failure, makes no call (nothing is re-issued); a connection
\* whose only child is local never makes a proxy call.
C28_ExactFanOutNoRetry == [][C28_Step]_vars

\* the reservation of a connection with two children went out to both; the
\* first child's call has failed, the second is still outstanding and
\* nothing was issued again
C28_Witness ==
    /\ Len(conns) = 2
    /\ pop = "reservation"
    /\ cresult[1].done /\ ~cresult[1].ok
    /\ pending[1].op = NoOp
    /\ pending[2].op = "reservation"
    /\ issued = << >>

C30_Step ==
    \A sp \in ServiceParams :
        (ConnectionReservation(sp) /\ pstate # INITIAL) =>
            /\ lastcall' = [ target |-> 0, op |-> "reservation", raised |-> TRUE ]
            /\ service_parameters' = service_parameters

\* C30: Connection.reservation called in a state other than Initial is
\* rejected with the transition error and the service parameters recorded
\* before the call are still the ones recorded after it.
C30_RejectedReservationKeepsParameters == [][C30_Step]_vars

\* C29: with a backend and proxies that complete every call, an accepted
\* parent operation (its DeferredList is waiting) eventually completes: the
\* parent's callback has run, the deferred handed to the caller has fired
\* and the parent has left the in-flight state for Reserved, Provisioned or
\* Terminated.
C29_AcceptedOperationCompletes ==
    (dlop # NoOp) ~>
        (dlop = NoOp /\ presult.done /\ pstate \in { RESERVED, PROVISIONED, TERMINATED })

\* the provision of a connection with a local and a remote child has
\* completed after both downstream calls did
C29_Witness ==
    /\ Len(conns) = 2
    /\ pop = "provision"
    /\ dlop = NoOp
    /\ Len(order) = 2
    /\ presult.done /\ presult.ok
    /\ pstate = PROVISIONED

C31_Step ==
    /\ \A c \in Children, id \in Ids :
           BackendSucceeds(c, id) =>
               /\ pending[c].op = "provision" => internal_connection_id' = id
               /\ pending[c].op = "releaseProvision" =>
                      internal_connection_id' = None /\ internal_reservation_id' = id
    /\ \A c \in Children :
           (conns[c] = "local" /\ cstate'[c] = RESERVED) => internal_connection_id' = None
    /\ \A i \in 1 .. Len(issued') :
           (issued'[i].on = "backend" /\ issued'[i].op \in { "provision", "releaseProvision" })
               => BackendArgument(issued'[i].op) # None

\* C31: for a LocalConnection created without IDs, a successful provision
\* leaves internal_connection_id at the ID the backend returned, a successful
\* release sets internal_connection_id to None and internal_reservation_id to
\* the ID returned; a local sub-connection in Reserved has no connection ID,
\* and neither backend.provision nor backend.releaseProvision is called with
\* an ID that is not set.
C31_LocalIdBookkeeping == [][C31_Step]_vars

\* the local sub-connection is back in Reserved after a release that
\* succeeded: the connection ID is cleared, the reservation ID is set
C31_Witness ==
    /\ conns = << "local" >>
    /\ cstate[1] = RESERVED
    /\ lastcall.op = "releaseProvision" /\ ~lastcall.raised
    /\ pending[1].op = NoOp
    /\ cresult[1].done /\ cresult[1].ok
    /\ internal_connection_id = None
    /\ internal_reservation_id # None

\* the state a child is in after its part of the operation succeeded
SuccessState(op) ==
    CASE op = "reservation" -> RESERVED
      [] op = "releaseProvision" -> RESERVED
      [] op = "provision" -> PROVISIONED
      [] OTHER -> TERMINATED

\* a reserve, provision or release of the parent has ended in partial failure
PartialFailure ==
    /\ pop \in { "reservation", "provision", "releaseProvision" }
    /\ AllReported
    /\ SomeButNotAllSucceeded
    /\ pstate = TERMINATED

ChildrenLeftAsReported ==
    /\ issued = << >>
    /\ \A c \in Children :
           /\ pending[c].op = NoOp
           /\ cresult[c].ok => cstate[c] = SuccessState(pop)
           /\ ~cresult[c].ok => cstate[c] = TERMINATED

\* C32: once a parent operation has ended in partial failure, with the parent
\* Terminated, nothing is called to compensate, then or later: every child
\* that succeeded is in the operation's success state (Reserved after reserve
\* or release, Provisioned after provision), every child that failed is
\* Terminated, and no child has a call outstanding.
C32_NoCompensation == PartialFailure => ChildrenLeftAsReported

\* the same for failures other than a remote reply naming a foreign
\* connection ID
C32_WithoutForeignReply ==
    (PartialFailure /\ \A c \in Children : cresult[c].cls # "AssertionError")
        => ChildrenLeftAsReported

\* C33: on a connection whose children start in Initial and are driven only
\* through the parent, a parent in Initial, Reserved or Provisioned has every
\* child in that same state, and a child in an in-flight state (Reserving,
\* Provisioning, Releasing, Terminating) has its parent in that same state.
C33_ParentChildConsistent ==
    /\ pstate \in { INITIAL, RESERVED, PROVISIONED } =>
           \A c \in Children : cstate[c] = pstate
    /\ \A c \in Children : cstate[c] \in InFlightStates => pstate = cstate[c]

\* the same while no remote reply has named a foreign connection ID
C33_WithoutForeignReply ==
    (\A c \in Children : cresult[c].cls # "AssertionError") => C33_ParentChildConsistent

C34_Step ==
    /\ \A c \in Children :
           (pending[c].op # NoOp /\ pending'[c].op = NoOp) =>
               /\ cstate[c] = InFlightState(pending[c].op)
               /\ cresult'[c].cls # "ConnectionStateTransitionError"
    /\ (dlop # NoOp /\ dlop' = NoOp) => pstate = InFlightState(dlop)
    /\ presult' # presult => presult'.cls # "ConnectionStateTransitionError"

\* C34: when the success or failure callback of a sub-connection's operation
\* runs, the sub-connection is in the in-flight state of that operation, and
\* when the parent's aggregate callback runs the parent is in the in-flight
\* state of its operation; no switchState inside a callback raises
\* ConnectionStateTransitionError, in whatever order the children complete.
C34_CallbacksSwitchLegally == [][C34_Step]_vars

\* a cancelReservation on two children has completed, the second child's
\* call before the first one's
C34_Witness ==
    /\ Len(conns) = 2
    /\ pop = "cancelReservation"
    /\ order = << 2, 1 >>
    /\ dlop = NoOp
    /\ presult.done /\ presult.ok
    /\ pstate = TERMINATED
    /\ \A c \in Children : cstate[c] = TERMINATED

C35_Step ==
    \A op \in Ops :
        (Len(conns) = 0 /\ ConnectionCall(op) /\ ~lastcall'.raised) =>
            /\ pstate' = SuccessState(op)
            /\ presult'.done /\ presult'.ok
            /\ dlop' = NoOp
            /\ issued' = << >>

\* C35: on a connection without children (no local connection, no remote
\* sub-connection) every accepted operation succeeds inside the call and
\* makes no downstream call: reservation ends in Reserved, provision in
\* Provisioned, releaseProvision in Reserved, cancelReservation in Terminated.
C35_ChildlessSucceeds == [][C35_Step]_vars

\* a childless connection has been released
C35_Witness ==
    /\ Len(conns) = 0
    /\ lastcall = [ target |-> 0, op |-> "releaseProvision", raised |-> FALSE ]
    /\ pop = "releaseProvision"
    /\ pstate = RESERVED
    /\ presult.done /\ presult.ok

\* C36: whatever reservation, cancelReservation, provision and
\* releaseProvision calls are made and however they complete, neither the
\* connection nor a local or remote sub-connection is ever in Auto-Provision,
\* although the transition table lists the state.
C36_AutoProvisionNeverEntered ==
    /\ pstate # AUTO_PROVISION
    /\ \A c \in Children : cstate[c] # AUTO_PROVISION

\* a connection and its local sub-connection have left Reserved, from where
\* the table would allow Auto-Provision, and are Provisioned
C36_Witness ==
    /\ conns = << "local" >>
    /\ pop = "provision"
    /\ presult.done /\ presult.ok
    /\ pstate = PROVISIONED
    /\ cstate[1] = PROVISIONED
    /\ AUTO_PROVISION \in TRANSITIONS[RESERVED]

====
